---- MODULE Spec2Model ----
(***************************************************************************)
(* Gverse: the Transaction retry engine (transaction.ts, retry.ts) and the *)
(* Graph session verbs built on it (graph.ts, vertex.ts).                   *)
(*                                                                         *)
(* One caller issues top-level calls one after another. A call is either a *)
(* Transaction method on an externally created Transaction ("ext"), or a   *)
(* Graph verb that uses "ext" or a fresh auto-commit Transaction ("auto").  *)
(* Every await of the source is a step boundary: the store answers a       *)
(* pending request, a hook settles, or the back-off timer fires.           *)
(* The store is a black box: each request succeeds or is rejected with a   *)
(* retryable or a permanent error.                                         *)
(***************************************************************************)
EXTENDS Integers, Sequences, FiniteSets, TLC

MaxRetries == 5

\* Number of top-level calls the caller issues one after another.
MaxCalls == 1

\* Number of calls the caller composes on its own Transaction (SpecCompose).
MaxSteps == 3

\* Number of concurrent callers, each with a Transaction of its own (SpecRace).
MaxRacers == 2

\* Number of calls of Graph.expansion in a row (SpecExpansion).
MaxExpansions == 2

\* Number of marshal / unmarshal calls in a row (SpecMarshal).
MaxMarshals == 2

\* Number of calls on the Connection in a row (SpecConnection).
MaxConnects == 2

\* Number of calls of Graph.all in a row (SpecAll).
MaxAlls == 2

\* Number of calls in a row on the caller's Transaction (SpecSequence).
MaxOps == 2

\* Number of marshal calls in a row on a graph of entities (SpecCycle).
MaxGraphCalls == 2

\* Nested marshal calls the engine's call stack has room for.
MaxStack == 6

(***************************************************************************)
(* JavaScript values, tagged by type.                                      *)
(***************************************************************************)
JUndef == [t |-> "undefined"]
JNull == [t |-> "null"]
S(s) == [t |-> "string", v |-> s]
N(n) == [t |-> "number", v |-> n]
B(b) == [t |-> "boolean", v |-> b]
A(seq) == [t |-> "array", v |-> seq]
O(f) == [t |-> "object", v |-> f]

\* ToBoolean
Truthy(x) ==
  /\ x.t \notin {"undefined", "null"}
  /\ ~(x.t = "string" /\ x.v = "")
  /\ ~(x.t = "number" /\ x.v = 0)
  /\ ~(x.t = "boolean" /\ x.v = FALSE)

\* Property read x[k] on a value that is neither undefined nor null.
Get(x, k) ==
  IF x.t \in {"object", "vertex"} THEN (IF k \in DOMAIN x.v THEN x.v[k] ELSE JUndef)
  ELSE IF x.t = "array" /\ k = "length" THEN N(Len(x.v))
  ELSE JUndef

\* Property write x[k] = val on an object.
Put(x, k, val) ==
  [x EXCEPT !.v = [j \in (DOMAIN x.v) \cup {k} |-> IF j = k THEN val ELSE x.v[j]]]

\* delete x[k]
Del(x, k) ==
  [x EXCEPT !.v = [j \in (DOMAIN x.v) \ {k} |-> x.v[j]]]

\* a < b of JavaScript for the operands the code compares: undefined
\* converts to NaN and every comparison with NaN is false.
JsLess(a, b) ==
  IF a.t = "number" /\ b.t = "number" THEN a.v < b.v ELSE FALSE

\* The blank-node placeholder mutate puts into a payload without uid, and
\* the key under which the store maps the id it allocated for it.
Placeholder == S("_:createdUid")
PlaceholderKey == "createdUid"
NquadKey == "blank-0"

(***************************************************************************)
(* Errors. A message is a sequence of words; includes() looks for a word.  *)
(***************************************************************************)
Err(msg) == [t |-> "error", message |-> msg]

Includes(msg, w) == \E i \in DOMAIN msg : msg[i] = w

\* Error(e): a new Error whose message is String(e) = "Error: " + e.message
\* for an Error e, and "" for undefined.
ErrorOf(e) ==
  IF e.t = "error" THEN Err(<<"Error:">> \o e.message) ELSE Err(<<>>)

AbortedErr == Err(<<"Transaction", "aborted.", "Please", "retry">>)
UnavailableErr == Err(<<"14", "UNAVAILABLE">>)
MalformedErr == Err(<<"Assertion", "failed">>)
FinishedErr == Err(<<"Transaction", "already", "committed", "or", "discarded">>)
ReadOnlyErr == Err(<<"Readonly", "transaction", "cannot", "mutate", "or", "commit">>)
DiscardErr == Err(<<"discard", "failed">>)
HookErr == Err(<<"hook", "rejected">>)

\* A retry test that does not look at the message.
shouldRetryAnyError(error, retries) ==
  IF ~Truthy(error) THEN FALSE
  ELSE retries < MaxRetries

\* A retry test that allows one attempt more.
shouldRetryOffByOne(error, retries) ==
  IF ~Truthy(error) THEN FALSE
  ELSE Includes(error.message, "retry") /\ retries <= MaxRetries

\* retry.ts: true iff the error is retry-able and retries remain.
shouldRetry(error, retries) ==
  IF ~Truthy(error) THEN FALSE
  ELSE Includes(error.message, "retry") /\ retries < MaxRetries


(***************************************************************************)
(* State.                                                                  *)
(***************************************************************************)
VARIABLES
  applied,         \* the store: the writes that were committed
  txs,             \* the Transaction objects: "ext" (the caller's) and "auto"
  calls,           \* number of top-level calls begun so far
  callOp,          \* the method the current top-level call entered
  gop,             \* frame of the Graph verb in progress
  top,             \* frame of the Transaction method in progress
  req,             \* the request the store has not answered yet
  ret,             \* what the last Transaction method returned to its caller
  result,          \* how the current top-level call settled
  log,             \* events of the current top-level call, in order
  entity,          \* the entity passed to the Graph verb
  entity0,         \* that entity as it was when the call began
  txCreated,       \* Transactions created by the current call
  resolvedWrites,  \* mutations that resolved on "ext" since it was created
  parked,          \* the calls in progress that are not running, by caller
  verified,        \* Connection.verified
  obtained         \* the handles of "ext" before this call: the mode the
                   \* constructor asked for, and how many it has had

vars ==
  <<applied, txs, calls, callOp, gop, top, req, ret, result, log, entity,
    entity0, txCreated, resolvedWrites, parked, verified, obtained>>

Ev(e, a) == [e |-> e, a |-> a]

\* A handle of the store client: connection.client.newTxn({ readOnly }).
NewTxn(readOnly) ==
  [readOnly |-> readOnly, staged |-> {}, finished |-> FALSE,
   discardRequested |-> FALSE]

\* new Transaction(connection, autoCommit, false, readOnly)
Transaction(autoCommit, readOnly) ==
  [autoCommit |-> autoCommit, txn |-> NewTxn(readOnly)]

NoTop ==
  [op |-> "none", tx |-> "none", pc |-> "none", retries |-> 0,
   values |-> JUndef, query |-> JUndef, variables |-> JUndef,
   condition |-> JUndef]

NoReq ==
  [kind |-> "none", commitNow |-> FALSE, mu |-> "none", body |-> JUndef,
   cond |-> JUndef, vars |-> JUndef]

NoGop ==
  [op |-> "none", tx |-> "none", pc |-> "none", traverse |-> FALSE,
   cls |-> "none", values |-> JUndef, current |-> JUndef]

Settled(status, value) == [status |-> status, value |-> value]
NoRet == Settled("none", JUndef)
Pending == Settled("pending", JUndef)

Idle == result.status # "pending"

\* The write the mutation of the current call stands for.
Write == calls

(***************************************************************************)
(* The store behind a handle (dgraph.Txn), as the Transaction sees it.     *)
(***************************************************************************)
IsWrite(r) == r.kind \in {"mutate", "doRequest", "commit"}

\* The client can encode a request whose query text is a string.
WellFormed(r) == r.kind \in {"query", "queryWithVars"} => r.body.t = "string"

\* A request can succeed on an open handle; a read-only handle takes reads.
CanSucceed(h, r) ==
  /\ WellFormed(r)
  /\ ~h.finished
  /\ IsWrite(r) => ~h.readOnly

\* The errors a request can be rejected with.
Failures(h, r) ==
  IF ~WellFormed(r) THEN {MalformedErr}
  ELSE IF h.finished THEN {FinishedErr}
  ELSE IF IsWrite(r) /\ h.readOnly THEN {ReadOnlyErr}
  ELSE {AbortedErr, UnavailableErr}

\* Handle and store after a request succeeded.
HandleAfter(h, r) ==
  IF r.kind = "commit" \/ (IsWrite(r) /\ r.commitNow)
  THEN [h EXCEPT !.staged = {}, !.finished = TRUE]
  ELSE IF IsWrite(r) THEN [h EXCEPT !.staged = @ \cup {Write}]
  ELSE h

AppliedAfter(h, r) ==
  IF r.kind = "commit" THEN applied \cup h.staged
  ELSE IF IsWrite(r) /\ r.commitNow THEN applied \cup h.staged \cup {Write}
  ELSE applied

\* txn.discard() is not awaited: it returns normally ("ok"), its promise
\* rejects later ("rejects"), or the call itself throws ("throws").
DiscardOutcomes == {"ok", "rejects", "throws"}

HandleDiscarded(h, how) ==
  IF how = "throws" THEN [h EXCEPT !.discardRequested = TRUE]
  ELSE [h EXCEPT !.staged = {}, !.finished = TRUE, !.discardRequested = TRUE]

\* The id map of a set-mutation: the store allocated an id for the blank
\* node, or none, or maps an empty id.
UidMaps == {<<>>, PlaceholderKey :> S("0x2"), PlaceholderKey :> S("")}

\* The id map of a delete or single-triple mutation.
NquadMaps == {<<>>, NquadKey :> S("0x3")}

MapGet(m, k) == IF k \in DOMAIN m THEN m[k] ELSE JUndef

\* a ?? b
Coalesce(a, b) == IF a.t \in {"undefined", "null"} THEN b ELSE a

\* Query texts, and the block each names its result.
VertexQuery(depth) == S(IF depth = 1 THEN "{vertex(..) { depth 1 }}"
                        ELSE "{vertex(..) { depth 3 }}")
VerticesQuery == S("{vertices(func:eq(name, Biggles)) @filter(type(..)) {..}}")
AllQuery == S("{vertices(func:type(..)  , first:1000 ) @filter(type(..)) {..}}")
PlainQuery == S("{q(func: has(name)) { uid }}")
ProbeQuery == S("{total (func: has(dgraph.type)) {count(uid)}}")
ClearQuery == S("{vertices (func: type(..)) { uid }}")

BlockOf(q) ==
  IF q \in {VertexQuery(1), VertexQuery(3)} THEN "vertex"
  ELSE IF q \in {VerticesQuery, AllQuery, ClearQuery} THEN "vertices"
  ELSE IF q = ProbeQuery THEN "total"
  ELSE "q"

\* What getJson() of a successful query can hold for a block: no such key,
\* an empty list, or one match; the count of the probe query is always there.
Found == O("uid" :> S("0x1") @@ "name" :> S("Biggles"))

QueryResults(block) ==
  IF block = "total"
  THEN {O(block :> A(<<O("count" :> N(n))>>)) : n \in {0, 2}}
  ELSE {O(<<>>), O(block :> A(<<>>)), O(block :> A(<<Found>>))}

(***************************************************************************)
(* Settling a Transaction method: it returns to the Graph verb that called *)
(* it, or it settles the top-level call.                                   *)
(***************************************************************************)
Finish(status, value) ==
  /\ top' = NoTop
  /\ req' = NoReq
  /\ ret' = Settled(status, value)
  /\ result' = IF gop.op = "none" THEN Settled(status, value) ELSE result

\* Installing the frame and the request of a method that was entered.
Enter(en, before) ==
  /\ top' = en.top
  /\ req' = en.req
  /\ log' = before \o <<Ev("send", en.req)>>
  /\ ret' = NoRet
  /\ result' = Pending

\* Bookkeeping of a top-level call that is a Transaction method on "ext".
BeginTxCall(bound, op) ==
  /\ Idle
  /\ calls < bound
  /\ calls' = calls + 1
  /\ callOp' = op
  /\ gop' = NoGop
  /\ entity' = JUndef
  /\ entity0' = JUndef
  /\ txCreated' = 0
  /\ txs' = [txs EXCEPT !.auto = Transaction(TRUE, FALSE)]
  /\ UNCHANGED <<parked, verified>>

\* The catch blocks of query, mutate, delete and upsert: discard the handle
\* inside try/catch, then on shouldRetry install a fresh handle and wait,
\* otherwise throw Error(e).
\* A catch that retries on the handle it has just discarded.
CatchSameHandle(e, how, readOnly) ==
  IF shouldRetry(e, top.retries)
  THEN /\ txs' = [txs EXCEPT ![top.tx].txn = HandleDiscarded(@, how)]
       /\ top' = [top EXCEPT !.pc = "wait"]
       /\ req' = NoReq
       /\ log' = log \o <<Ev("fail", e), Ev("discard", JUndef),
                          Ev("wait", JUndef)>>
       /\ UNCHANGED <<ret, result>>
  ELSE /\ txs' = [txs EXCEPT ![top.tx].txn = HandleDiscarded(@, how)]
       /\ log' = log \o <<Ev("fail", e), Ev("discard", S(how))>>
       /\ Finish("rejected", ErrorOf(e))

\* A catch whose new handle has the mode the constructor asked for.
CatchConstructedMode(e, how, readOnly) ==
  IF shouldRetry(e, top.retries)
  THEN /\ txs' = [txs EXCEPT ![top.tx].txn = NewTxn(obtained.readOnly)]
       /\ top' = [top EXCEPT !.pc = "wait"]
       /\ req' = NoReq
       /\ log' = log \o <<Ev("fail", e), Ev("discard", JUndef),
                          Ev("newTxn", B(obtained.readOnly)), Ev("wait", JUndef)>>
       /\ UNCHANGED <<ret, result>>
  ELSE /\ txs' = [txs EXCEPT ![top.tx].txn = HandleDiscarded(@, how)]
       /\ log' = log \o <<Ev("fail", e), Ev("discard", S(how))>>
       /\ Finish("rejected", ErrorOf(e))

Catch(e, how, readOnly) ==
  IF shouldRetry(e, top.retries)
  THEN /\ txs' = [txs EXCEPT ![top.tx].txn = NewTxn(readOnly)]
       /\ top' = [top EXCEPT !.pc = "wait"]
       /\ req' = NoReq
       /\ log' = log \o <<Ev("fail", e), Ev("discard", JUndef),
                          Ev("newTxn", B(readOnly)), Ev("wait", JUndef)>>
       /\ UNCHANGED <<ret, result>>
  ELSE /\ txs' = [txs EXCEPT ![top.tx].txn = HandleDiscarded(@, how)]
       /\ log' = log \o <<Ev("fail", e), Ev("discard", S(how))>>
       /\ Finish("rejected", ErrorOf(e))

(***************************************************************************)
(* Transaction.query                                                       *)
(***************************************************************************)
queryEnter(tx, query, variables, retries) ==
  [top |-> [NoTop EXCEPT !.op = "query", !.tx = tx, !.pc = "await",
                         !.retries = retries, !.query = query,
                         !.variables = variables],
   req |-> [NoReq EXCEPT !.kind = IF Truthy(variables) THEN "queryWithVars"
                                  ELSE "query",
                         !.body = query, !.vars = variables]]

\* A query that starts at the retry count the call before it reached.
queryStartCarried(bound) ==
  /\ BeginTxCall(bound, "Transaction.query")
  /\ \E variables \in {JUndef, O("$name" :> S("Biggles"))} :
       Enter(queryEnter("ext", PlainQuery, variables,
                        Cardinality({i \in DOMAIN log : log[i].e = "newTxn"})),
             <<>>)
  /\ UNCHANGED <<applied, resolvedWrites>>

queryStart(bound) ==
  /\ BeginTxCall(bound, "Transaction.query")
  /\ \E variables \in {JUndef, O("$name" :> S("Biggles"))} :
       Enter(queryEnter("ext", PlainQuery, variables, 0), <<>>)
  /\ UNCHANGED <<applied, resolvedWrites>>

CallQuery == queryStart(MaxCalls) /\ UNCHANGED obtained

queryOk ==
  /\ top.op = "query" /\ top.pc = "await"
  /\ CanSucceed(txs[top.tx].txn, req)
  /\ \E res \in QueryResults(BlockOf(top.query)) :
       /\ log' = Append(log, Ev("ok", res))
       /\ Finish("resolved", res)
  /\ UNCHANGED <<applied, txs, calls, callOp, gop, entity, entity0, txCreated,
                 resolvedWrites, parked, verified, obtained>>

queryCatch ==
  /\ top.op = "query" /\ top.pc = "await"
  /\ \E e \in Failures(txs[top.tx].txn, req), how \in DiscardOutcomes :
       Catch(e, how, TRUE)
  /\ UNCHANGED <<applied, calls, callOp, gop, entity, entity0, txCreated,
                 resolvedWrites, parked, verified, obtained>>

queryRetry ==
  /\ top.op = "query" /\ top.pc = "wait"
  /\ Enter(queryEnter(top.tx, top.query, top.variables, top.retries + 1), log)
  /\ UNCHANGED <<applied, txs, calls, callOp, gop, entity, entity0, txCreated,
                 resolvedWrites, parked, verified, obtained>>

(***************************************************************************)
(* Transaction.mutate                                                      *)
(***************************************************************************)
mutateEnter(tx, values, retries) ==
  LET v1 == IF ~Truthy(Get(values, "uid")) THEN Put(values, "uid", Placeholder)
            ELSE values
  IN [top |-> [NoTop EXCEPT !.op = "mutate", !.tx = tx, !.pc = "await",
                            !.retries = retries, !.values = v1],
      req |-> [NoReq EXCEPT !.kind = "mutate", !.commitNow = txs[tx].autoCommit,
                            !.mu = "setJson", !.body = v1]]

\* A mutate that resolves with what the store mapped, whatever it is.
mutateResultStoreOnly(uidMap, values) == MapGet(uidMap, PlaceholderKey)

\* The id mutate resolves with, given the store's id map.
mutateResult(uidMap, values) ==
  LET updatedUid == Coalesce(MapGet(uidMap, PlaceholderKey), Get(values, "uid"))
  IN IF ~Truthy(updatedUid) THEN Get(values, "uid") ELSE updatedUid

MutateInputs ==
  {O("name" :> S("Biggles")),
   O("uid" :> S("0x1") @@ "name" :> S("Biggles")),
   O("uid" :> S("") @@ "name" :> S("Biggles"))}

mutateStart(bound, inputs) ==
  /\ BeginTxCall(bound, "Transaction.mutate")
  /\ \E values \in inputs :
       Enter(mutateEnter("ext", values, 0), <<Ev("call", values)>>)
  /\ UNCHANGED <<applied, resolvedWrites>>

CallMutate == mutateStart(MaxCalls, MutateInputs) /\ UNCHANGED obtained

\* Whatever settles a mutation method on "ext" successfully is recorded.
Resolves(tx) ==
  resolvedWrites' = IF tx = "ext" THEN resolvedWrites \cup {Write}
                    ELSE resolvedWrites

mutateOk ==
  /\ top.op = "mutate" /\ top.pc = "await"
  /\ CanSucceed(txs[top.tx].txn, req)
  /\ \E uidMap \in UidMaps :
       /\ log' = Append(log, Ev("ok", O(uidMap)))
       /\ Finish("resolved", mutateResult(uidMap, top.values))
  /\ txs' = [txs EXCEPT ![top.tx].txn = HandleAfter(@, req)]
  /\ applied' = AppliedAfter(txs[top.tx].txn, req)
  /\ Resolves(top.tx)
  /\ UNCHANGED <<calls, callOp, gop, entity, entity0, txCreated, parked, verified, obtained>>

mutateCatch ==
  /\ top.op = "mutate" /\ top.pc = "await"
  /\ \E e \in Failures(txs[top.tx].txn, req), how \in DiscardOutcomes :
       Catch(e, how, FALSE)
  /\ UNCHANGED <<applied, calls, callOp, gop, entity, entity0, txCreated,
                 resolvedWrites, parked, verified, obtained>>

mutateRetry ==
  /\ top.op = "mutate" /\ top.pc = "wait"
  /\ Enter(mutateEnter(top.tx, top.values, top.retries + 1), log)
  /\ UNCHANGED <<applied, txs, calls, callOp, gop, entity, entity0, txCreated,
                 resolvedWrites, parked, verified, obtained>>

(***************************************************************************)
(* Transaction.delete                                                      *)
(***************************************************************************)
\* if (!values.uid && values.length < 1) return
deleteNothing(values) ==
  ~Truthy(Get(values, "uid")) /\ JsLess(Get(values, "length"), N(1))

deleteEnter(tx, values, retries) ==
  [top |-> [NoTop EXCEPT !.op = "delete", !.tx = tx, !.pc = "await",
                         !.retries = retries, !.values = values],
   req |-> [NoReq EXCEPT !.kind = "mutate", !.commitNow = txs[tx].autoCommit,
                         !.mu = "deleteJson", !.body = values]]

\* An object with uid, an object without uid, an empty list, a list of
\* objects with uids.
DeleteInputs ==
  {O("uid" :> S("0x1")),
   O("name" :> S("Biggles")),
   A(<<>>),
   A(<<O("uid" :> S("0x1"))>>)}

\* Entering delete: the no-op returns undefined, anything else is sent.
deleteBegin(tx, values, before) ==
  IF deleteNothing(values)
  THEN /\ log' = before
       /\ Finish("resolved", JUndef)
  ELSE Enter(deleteEnter(tx, values, 0), before)

deleteStart(bound) ==
  /\ BeginTxCall(bound, "Transaction.delete")
  /\ \E values \in DeleteInputs :
       deleteBegin("ext", values, <<Ev("call", values)>>)
  /\ UNCHANGED <<applied, resolvedWrites>>

CallDelete == deleteStart(MaxCalls) /\ UNCHANGED obtained

deleteOk ==
  /\ top.op = "delete" /\ top.pc = "await"
  /\ CanSucceed(txs[top.tx].txn, req)
  /\ \E uidMap \in NquadMaps :
       /\ log' = Append(log, Ev("ok", O(uidMap)))
       /\ Finish("resolved", MapGet(uidMap, NquadKey))
  /\ txs' = [txs EXCEPT ![top.tx].txn = HandleAfter(@, req)]
  /\ applied' = AppliedAfter(txs[top.tx].txn, req)
  /\ Resolves(top.tx)
  /\ UNCHANGED <<calls, callOp, gop, entity, entity0, txCreated, parked, verified, obtained>>

deleteCatch ==
  /\ top.op = "delete" /\ top.pc = "await"
  /\ \E e \in Failures(txs[top.tx].txn, req), how \in DiscardOutcomes :
       Catch(e, how, FALSE)
  /\ UNCHANGED <<applied, calls, callOp, gop, entity, entity0, txCreated,
                 resolvedWrites, parked, verified, obtained>>

\* return await this.query(values, retries + 1): the retry enters query
\* with the values as query text and the count as variables.
deleteRetry ==
  /\ top.op = "delete" /\ top.pc = "wait"
  /\ Enter(queryEnter(top.tx, top.values, N(top.retries + 1), 0), log)
  /\ UNCHANGED <<applied, txs, calls, callOp, gop, entity, entity0, txCreated,
                 resolvedWrites, parked, verified, obtained>>

(***************************************************************************)
(* Transaction.upsert                                                      *)
(***************************************************************************)
upsertEnter(tx, query, values, condition, retries) ==
  [top |-> [NoTop EXCEPT !.op = "upsert", !.tx = tx, !.pc = "await",
                         !.retries = retries, !.query = query,
                         !.values = values, !.condition = condition],
   req |-> [NoReq EXCEPT !.kind = "doRequest",
                         !.commitNow = txs[tx].autoCommit,
                         !.mu = "setJson", !.body = values,
                         !.vars = S("query " \o query.v),
                         !.cond = IF Truthy(condition)
                                  THEN S("@if(" \o condition.v \o ")")
                                  ELSE JUndef]]

UpsertValues == O("uid" :> S("uid(vertex)") @@ "nickName" :> S("Biggles"))

upsertStart(bound) ==
  /\ BeginTxCall(bound, "Transaction.upsert")
  /\ \E condition \in {JUndef, S("eq(len(vertex), 1)")} :
       Enter(upsertEnter("ext", PlainQuery, UpsertValues, condition, 0),
             <<Ev("call", condition)>>)
  /\ UNCHANGED <<applied, resolvedWrites>>

CallUpsert == upsertStart(MaxCalls) /\ UNCHANGED obtained

upsertOk ==
  /\ top.op = "upsert" /\ top.pc = "await"
  /\ CanSucceed(txs[top.tx].txn, req)
  /\ log' = Append(log, Ev("ok", JUndef))
  /\ Finish("resolved", B(TRUE))
  /\ txs' = [txs EXCEPT ![top.tx].txn = HandleAfter(@, req)]
  /\ applied' = AppliedAfter(txs[top.tx].txn, req)
  /\ Resolves(top.tx)
  /\ UNCHANGED <<calls, callOp, gop, entity, entity0, txCreated, parked, verified, obtained>>

upsertCatch ==
  /\ top.op = "upsert" /\ top.pc = "await"
  /\ \E e \in Failures(txs[top.tx].txn, req), how \in DiscardOutcomes :
       Catch(e, how, FALSE)
  /\ UNCHANGED <<applied, calls, callOp, gop, entity, entity0, txCreated,
                 resolvedWrites, parked, verified, obtained>>

upsertRetry ==
  /\ top.op = "upsert" /\ top.pc = "wait"
  /\ Enter(upsertEnter(top.tx, top.query, top.values, top.condition,
                       top.retries + 1), log)
  /\ UNCHANGED <<applied, txs, calls, callOp, gop, entity, entity0, txCreated,
                 resolvedWrites, parked, verified, obtained>>

(***************************************************************************)
(* Transaction.mutateNquads and Transaction.deleteNquads                   *)
(***************************************************************************)
\* `${subject} <${predicate}> ${object} .`
\* A triple with subject and object exchanged.
NquadReversed(subject, predicate, object) ==
  A(<<object, predicate, subject>>)

Nquad(subject, predicate, object) ==
  A(<<subject, predicate, object>>)

nquadsEnter(op, tx, subject, predicate, object) ==
  [top |-> [NoTop EXCEPT !.op = op, !.tx = tx, !.pc = "await",
                         !.values = Nquad(subject, predicate, object)],
   req |-> [NoReq EXCEPT !.kind = "mutate", !.commitNow = txs[tx].autoCommit,
                         !.mu = IF op = "mutateNquads" THEN "setNquads"
                                ELSE "delNquads",
                         !.body = Nquad(subject, predicate, object)]]

\* if (object === null) return
nquadsBegin(op, tx, subject, predicate, object, before) ==
  IF object = JNull
  THEN /\ log' = before
       /\ Finish("resolved", JUndef)
  ELSE Enter(nquadsEnter(op, tx, subject, predicate, object), before)

nquadsStart(bound, op) ==
  /\ BeginTxCall(bound, "Transaction." \o op)
  /\ \E object \in {JNull, S("<0x2>")} :
       nquadsBegin(op, "ext", S("<0x1>"), S("owner"), object,
                   <<Ev("call", object)>>)
  /\ UNCHANGED <<applied, resolvedWrites>>

CallMutateNquads == nquadsStart(MaxCalls, "mutateNquads") /\ UNCHANGED obtained

CallDeleteNquads == nquadsStart(MaxCalls, "deleteNquads") /\ UNCHANGED obtained

nquadsOk(op) ==
  /\ top.op = op /\ top.pc = "await"
  /\ CanSucceed(txs[top.tx].txn, req)
  /\ \E uidMap \in NquadMaps :
       /\ log' = Append(log, Ev("ok", O(uidMap)))
       /\ Finish("resolved", MapGet(uidMap, NquadKey))
  /\ txs' = [txs EXCEPT ![top.tx].txn = HandleAfter(@, req)]
  /\ applied' = AppliedAfter(txs[top.tx].txn, req)
  /\ Resolves(top.tx)
  /\ UNCHANGED <<calls, callOp, gop, entity, entity0, txCreated, parked, verified, obtained>>

\* catch (e) { log(..); void this.txn.discard(); throw Error(e) }: the
\* discard is not inside a try, so a discard that throws is what is thrown.
nquadsCatch(op) ==
  /\ top.op = op /\ top.pc = "await"
  /\ \E e \in Failures(txs[top.tx].txn, req), how \in DiscardOutcomes :
       /\ txs' = [txs EXCEPT ![top.tx].txn = HandleDiscarded(@, how)]
       /\ log' = log \o <<Ev("fail", e), Ev("discard", S(how))>>
       /\ Finish("rejected", IF how = "throws" THEN DiscardErr ELSE ErrorOf(e))
  /\ UNCHANGED <<applied, calls, callOp, gop, entity, entity0, txCreated,
                 resolvedWrites, parked, verified, obtained>>

mutateNquadsOk == nquadsOk("mutateNquads")

mutateNquadsCatch == nquadsCatch("mutateNquads")

deleteNquadsOk == nquadsOk("deleteNquads")

deleteNquadsCatch == nquadsCatch("deleteNquads")

(***************************************************************************)
(* Transaction.commit and Transaction.discard                              *)
(***************************************************************************)
commitStart(bound) ==
  /\ BeginTxCall(bound, "Transaction.commit")
  /\ Enter([top |-> [NoTop EXCEPT !.op = "commit", !.tx = "ext", !.pc = "await"],
            req |-> [NoReq EXCEPT !.kind = "commit"]], <<>>)
  /\ UNCHANGED <<applied, resolvedWrites>>

CallCommit == commitStart(MaxCalls) /\ UNCHANGED obtained

commitOk ==
  /\ top.op = "commit" /\ top.pc = "await"
  /\ CanSucceed(txs[top.tx].txn, req)
  /\ log' = Append(log, Ev("ok", JUndef))
  /\ Finish("resolved", JUndef)
  /\ txs' = [txs EXCEPT ![top.tx].txn = HandleAfter(@, req)]
  /\ applied' = AppliedAfter(txs[top.tx].txn, req)
  /\ UNCHANGED <<calls, callOp, gop, entity, entity0, txCreated, resolvedWrites, parked, verified, obtained>>

\* A commit that catches, takes a new handle and commits again.
commitFailRetried ==
  /\ top.op = "commit" /\ top.pc = "await"
  /\ \E e \in Failures(txs[top.tx].txn, req) :
       log' = log \o <<Ev("fail", e), Ev("newTxn", B(FALSE)), Ev("send", req)>>
  /\ txs' = [txs EXCEPT ![top.tx].txn = NewTxn(FALSE)]
  /\ UNCHANGED <<applied, calls, callOp, gop, top, req, ret, result, entity,
                 entity0, txCreated, resolvedWrites, parked, verified, obtained>>

\* commit() has no catch: the store's error propagates as it is; the store
\* has ended the handle and committed nothing.
commitFail ==
  /\ top.op = "commit" /\ top.pc = "await"
  /\ \E e \in Failures(txs[top.tx].txn, req) :
       /\ log' = Append(log, Ev("fail", e))
       /\ Finish("rejected", e)
  /\ txs' = [txs EXCEPT ![top.tx].txn =
                          [@ EXCEPT !.staged = {}, !.finished = TRUE]]
  /\ UNCHANGED <<applied, calls, callOp, gop, entity, entity0, txCreated,
                 resolvedWrites, parked, verified, obtained>>

\* discard(): await this.txn.discard()
discardStart(bound) ==
  /\ BeginTxCall(bound, "Transaction.discard")
  /\ top' = [NoTop EXCEPT !.op = "discard", !.tx = "ext", !.pc = "await"]
  /\ req' = NoReq
  /\ log' = <<Ev("discard", JUndef)>>
  /\ ret' = NoRet
  /\ result' = Pending
  /\ UNCHANGED <<applied, resolvedWrites>>

CallDiscard == discardStart(MaxCalls) /\ UNCHANGED obtained

discardDone ==
  /\ top.op = "discard" /\ top.pc = "await"
  /\ \E how \in DiscardOutcomes :
       /\ txs' = [txs EXCEPT ![top.tx].txn = HandleDiscarded(@, how)]
       /\ IF how = "ok" THEN Finish("resolved", JUndef)
          ELSE Finish("rejected", DiscardErr)
  /\ UNCHANGED <<applied, calls, callOp, gop, log, entity, entity0, txCreated,
                 resolvedWrites, parked, verified, obtained>>

(***************************************************************************)
(* Vertex classes (the fixtures Pet, Owner, Origin) and marshaling.        *)
(***************************************************************************)
EdgeTo(type, cardinality, reverseOf) ==
  [type |-> type, cardinality |-> cardinality, reverseEdgeName |-> reverseOf]

\* _edges of each class
Edges(cls) ==
  IF cls = "Pet" THEN "owner" :> EdgeTo("Owner", "Single", "")
                   @@ "origin" :> EdgeTo("Origin", "Single", "")
  ELSE IF cls = "Owner" THEN "pets" :> EdgeTo("Pet", "Multiple", "")
  ELSE IF cls = "Origin" THEN "pets" :> EdgeTo("Pet", "Multiple", "origin")
  ELSE <<>>

\* Edge.direction
Direction(edge) ==
  IF edge.reverseEdgeName = "" THEN "Directed" ELSE "Undirected"

\* new cls(): every predicate at its default, no uid
NewVertex(cls) ==
  [t |-> "vertex", c |-> cls,
   v |-> IF cls = "Pet"
         THEN "uid" :> JUndef @@ "type" :> S("Pet") @@ "name" :> S("")
              @@ "name$ur" :> S("") @@ "owner" :> JUndef @@ "origin" :> JUndef
         ELSE IF cls = "Origin"
         THEN "uid" :> JUndef @@ "type" :> S("Origin") @@ "name" :> S("")
              @@ "pets" :> A(<<>>)
         ELSE "uid" :> JUndef @@ "type" :> S(cls) @@ "name" :> S("")
              @@ "pets" :> JUndef]

\* key.startsWith("_")
Private(k) == k \in {"_edges", "_graph", "_temp"}

\* A marshal that keeps the key as it is.
ToStoreKeySame(k) == k

\* key.replace("$", "@") and key.replace("@", "$")
ToStoreKey(k) == IF k = "name$ur" THEN "name@ur" ELSE k
FromStoreKey(k) == IF k = "name@ur" THEN "name$ur" ELSE k

\* The edge name without the reverse marker.
ReverseKeyPlain(name) == name

\* `~${edge.reverseEdgeName}`
ReverseKey(name) == IF name = "origin" THEN "~origin" ELSE "~" \o name

RECURSIVE autoMarshal(_, _)
\* Vertex.autoMarshal; a linked vertex is marshaled by marshal(), whose
\* traverse defaults to true.
autoMarshal(vertex, traverse) ==
  LET edges == Edges(vertex.c)
      isEdge(k) == Truthy(vertex.v[k]) /\ k \in DOMAIN edges
      emitted == {k \in DOMAIN vertex.v :
                    /\ ~Private(k)
                    /\ isEdge(k) => (traverse /\ Direction(edges[k]) = "Directed")}
      valueOf(k) ==
        IF ~isEdge(k) THEN vertex.v[k]
        ELSE IF vertex.v[k].t = "array"
        THEN A([i \in DOMAIN vertex.v[k].v |-> autoMarshal(vertex.v[k].v[i], TRUE)])
        ELSE IF vertex.v[k].t = "vertex" THEN autoMarshal(vertex.v[k], TRUE)
        ELSE vertex.v[k]
  IN O([sk \in {ToStoreKey(k) : k \in emitted} |->
          valueOf(CHOOSE k \in emitted : ToStoreKey(k) = sk)])

TypeErr == Err(<<"TypeError:", "Cannot", "set", "properties", "of", "undefined">>)

\* The first element instead of the last.
Shift(arr) == IF Len(arr.v) = 0 THEN JUndef ELSE arr.v[1]

\* array.pop(): the last element, undefined for an empty array
Pop(arr) == IF Len(arr.v) = 0 THEN JUndef ELSE arr.v[Len(arr.v)]

\* A reset that leaves the edge fields as they are.
ResetEdgesKeep(vertex) ==
  [vertex EXCEPT !.v =
     [k \in (DOMAIN vertex.v) \cup (DOMAIN Edges(vertex.c)) |->
        IF k \in DOMAIN vertex.v THEN vertex.v[k] ELSE JUndef]]

\* for (let key in this._edges) vertex[key] = undefined
ResetEdges(vertex) ==
  [vertex EXCEPT !.v =
     [k \in (DOMAIN vertex.v) \cup (DOMAIN Edges(vertex.c)) |->
        IF k \in DOMAIN Edges(vertex.c) THEN JUndef ELSE vertex.v[k]]]

RECURSIVE autoUnmarshal(_, _)
\* Vertex.autoUnmarshal: the vertex after the call and whether it threw.
\* The edges are reset first; the reverse edges are then read from the
\* values, which throws when there are no values; then every key of the
\* values is assigned.
autoUnmarshal(vertex, values) ==
  LET edges == Edges(vertex.c)
      reset == ResetEdges(vertex)
      undirected == {k \in DOMAIN edges : Direction(edges[k]) = "Undirected"}
      reverseKeys == {ReverseKey(edges[k].reverseEdgeName) : k \in undirected}
  IN IF values.t \in {"undefined", "null"}
     THEN [threw |-> undirected # {}, vertex |-> reset]
     ELSE
       LET vals == [k \in ((DOMAIN values.v) \ reverseKeys) \cup undirected |->
                      IF k \in undirected
                      THEN Get(values, ReverseKey(edges[k].reverseEdgeName))
                      ELSE values.v[k]]
           keys == {k \in DOMAIN vals : ~Private(k)}
           built(k) ==
             IF k \in DOMAIN edges /\ vals[k].t = "array"
             THEN IF edges[k].cardinality = "Single"
                  THEN LET u == autoUnmarshal(NewVertex(edges[k].type), Pop(vals[k]))
                       IN [threw |-> u.threw, val |-> u.vertex]
                  ELSE LET us == [i \in DOMAIN vals[k].v |->
                                    autoUnmarshal(NewVertex(edges[k].type), vals[k].v[i])]
                       IN [threw |-> \E i \in DOMAIN us : us[i].threw,
                           val |-> A([i \in DOMAIN us |-> us[i].vertex])]
             ELSE [threw |-> FALSE, val |-> vals[k]]
           fields == {FromStoreKey(k) : k \in keys}
       IN [threw |-> \E k \in keys : built(k).threw,
           vertex |-> [reset EXCEPT !.v =
                         [f \in (DOMAIN reset.v) \cup fields |->
                            IF f \in fields
                            THEN built(CHOOSE k \in keys : FromStoreKey(k) = f).val
                            ELSE reset.v[f]]]]

\* The entities the caller passes to a Graph verb.
WithUid(vertex, uid) == [vertex EXCEPT !.v["uid"] = uid]

Named(vertex) == [vertex EXCEPT !.v["name"] = S("Biggles")]

Vertices(uids) ==
  {WithUid(Named(NewVertex(cls)), uid) : cls \in {"Pet", "Origin"}, uid \in uids}

(***************************************************************************)
(* Graph verbs.                                                            *)
(***************************************************************************)
\* A precondition that lets the empty uid through.
MissingUidOnlyUndefined(v) == Get(v, "uid").t = "undefined"

\* if (!vertex.uid) throw ...: the precondition of load, delete, update, save
MissingUid(v) == ~Truthy(Get(v, "uid"))

\* Bookkeeping of a top-level call that is a Graph verb on an entity.
BeginGraphCall(bound, op, v) ==
  /\ Idle
  /\ calls < bound
  /\ calls' = calls + 1
  /\ callOp' = op
  /\ entity' = v
  /\ entity0' = v
  /\ UNCHANGED <<parked, verified, obtained>>

\* The verb fails its precondition: nothing else happens.
Refuse(message) ==
  /\ result' = Settled("rejected", Err(message))
  /\ log' = <<>>
  /\ txCreated' = 0
  /\ txs' = [txs EXCEPT !.auto = Transaction(TRUE, FALSE)]
  /\ UNCHANGED <<applied, gop, top, req, ret, resolvedWrites>>

\* A verb that creates a Transaction whether or not one was supplied.
UseTxAlwaysNew(transaction) ==
  /\ txs' = [txs EXCEPT !.auto = Transaction(TRUE, FALSE)]
  /\ txCreated' = 1

\* const tx = transaction ?? this.connection.newTransaction(true)
UseTx(transaction) ==
  /\ txs' = [txs EXCEPT !.auto = Transaction(TRUE, FALSE)]
  /\ txCreated' = IF transaction = "auto" THEN 1 ELSE 0

TxEvents(transaction) ==
  IF transaction = "auto" THEN <<Ev("newTransaction", B(TRUE))>> ELSE <<>>

\* The verb settles the top-level call.
GraphSettle(status, value) ==
  /\ result' = Settled(status, value)
  /\ gop' = NoGop
  /\ ret' = NoRet
  /\ UNCHANGED <<top, req>>

\* A Transaction method returned to the verb waiting at pc.
Returned(op, pc) ==
  /\ gop.op = op /\ gop.pc = pc
  /\ top.op = "none"
  /\ ret.status \in {"resolved", "rejected"}

\* A hook the verb awaits is settling.
HookOutcomes == {"ok", "rejects"}

AtHook(op, pc) == gop.op = op /\ gop.pc = pc

\* Graph.get
getStart(bound) ==
  \E cls \in {"Pet", "Origin"}, uid \in {JUndef, S("0x1")},
     transaction \in {"ext", "auto"} :
    /\ BeginGraphCall(bound, "Graph.get", JUndef)
    /\ IF ~Truthy(uid) THEN Refuse(<<"No", "uid", "provided">>)
       ELSE /\ UseTx(transaction)
            /\ gop' = [NoGop EXCEPT !.op = "get", !.tx = transaction,
                                    !.pc = "query", !.cls = cls]
            /\ Enter(queryEnter(transaction, VertexQuery(3), JUndef, 0),
                     TxEvents(transaction))
            /\ UNCHANGED <<applied, resolvedWrites>>

GraphGet == getStart(MaxCalls)

\* if (res?.vertex) return new vertexClass().unmarshal(res.vertex.pop())
getReturn ==
  /\ Returned("get", "query")
  /\ IF ret.status = "rejected" THEN GraphSettle("rejected", ret.value)
     ELSE IF ret.value.t \in {"undefined", "null"}
             \/ ~Truthy(Get(ret.value, "vertex"))
     THEN GraphSettle("resolved", JUndef)
     ELSE LET u == autoUnmarshal(NewVertex(gop.cls), Pop(Get(ret.value, "vertex")))
          IN IF u.threw THEN GraphSettle("rejected", TypeErr)
             ELSE GraphSettle("resolved", u.vertex)
  /\ UNCHANGED <<applied, txs, calls, callOp, log, entity, entity0, txCreated,
                 resolvedWrites, parked, verified, obtained>>

\* Graph.load
\* A load that takes an empty list of matches for no match.
loadReturnSkipsEmpty ==
  /\ Returned("load", "query")
  /\ IF ret.status = "rejected"
     THEN GraphSettle("rejected", ret.value) /\ UNCHANGED entity
     ELSE IF ret.value.t \in {"undefined", "null"}
             \/ ~Truthy(Get(ret.value, "vertex"))
             \/ Get(ret.value, "vertex") = A(<<>>)
     THEN GraphSettle("resolved", JUndef) /\ UNCHANGED entity
     ELSE LET u == autoUnmarshal(entity, Pop(Get(ret.value, "vertex")))
          IN /\ entity' = u.vertex
             /\ IF u.threw THEN GraphSettle("rejected", TypeErr)
                ELSE GraphSettle("resolved", u.vertex)
  /\ UNCHANGED <<applied, txs, calls, callOp, log, entity0, txCreated,
                 resolvedWrites, parked, verified, obtained>>

\* A pet that was loaded before, its owner populated.
Owned ==
  [WithUid(Named(NewVertex("Pet")), S("0x1")) EXCEPT
     !.v["owner"] = WithUid(Named(NewVertex("Owner")), S("0x7"))]

loadStart(bound) ==
  \E v \in Vertices({JUndef, S(""), S("0x1")}) \cup {Owned},
     transaction \in {"ext", "auto"} :
    /\ BeginGraphCall(bound, "Graph.load", v)
    /\ IF MissingUid(v) THEN Refuse(<<"Vertex", "instance", "requires", "uid">>)
       ELSE /\ UseTx(transaction)
            /\ gop' = [NoGop EXCEPT !.op = "load", !.tx = transaction,
                                    !.pc = "query", !.cls = v.c]
            /\ Enter(queryEnter(transaction, VertexQuery(3), JUndef, 0),
                     TxEvents(transaction))
            /\ UNCHANGED <<applied, resolvedWrites>>

GraphLoad == loadStart(MaxCalls)

\* if (res?.vertex) return vertex.unmarshal(res.vertex.pop())
loadReturn ==
  /\ Returned("load", "query")
  /\ IF ret.status = "rejected"
     THEN GraphSettle("rejected", ret.value) /\ UNCHANGED entity
     ELSE IF ret.value.t \in {"undefined", "null"}
             \/ ~Truthy(Get(ret.value, "vertex"))
     THEN GraphSettle("resolved", JUndef) /\ UNCHANGED entity
     ELSE LET u == autoUnmarshal(entity, Pop(Get(ret.value, "vertex")))
          IN /\ entity' = u.vertex
             /\ IF u.threw THEN GraphSettle("rejected", TypeErr)
                ELSE GraphSettle("resolved", u.vertex)
  /\ UNCHANGED <<applied, txs, calls, callOp, log, entity0, txCreated,
                 resolvedWrites, parked, verified, obtained>>

\* Graph.first and Graph.all, through queryWithFunction and Graph.query,
\* and Graph.query itself: the query is sent with the parameters {}.
firstStart(bound) ==
  \E cls \in {"Pet", "Origin"}, transaction \in {"ext", "auto"},
     verb \in {"first", "all", "query"} :
    /\ BeginGraphCall(bound, "Graph." \o verb, JUndef)
    /\ UseTx(transaction)
    /\ gop' = [NoGop EXCEPT !.op = verb, !.tx = transaction,
                            !.pc = "query", !.cls = cls]
    /\ Enter(queryEnter(transaction,
                        IF verb = "all" THEN AllQuery ELSE VerticesQuery,
                        O(<<>>), 0),
             TxEvents(transaction))
    /\ UNCHANGED <<applied, resolvedWrites>>

GraphFirst == firstStart(MaxCalls)

\* Graph.query: if (!res) return []; res.vertices.map(unmarshal);
\* Graph.first: matches ? matches.pop() : undefined
firstReturn ==
  /\ \E verb \in {"first", "all", "query"} : Returned(verb, "query")
  /\ IF ret.status = "rejected" THEN GraphSettle("rejected", ret.value)
     ELSE IF ~Truthy(ret.value)
     THEN GraphSettle("resolved", IF gop.op = "first" THEN JUndef ELSE A(<<>>))
     ELSE IF Get(ret.value, "vertices").t # "array"
     THEN GraphSettle("rejected", TypeErr)
     ELSE LET list == Get(ret.value, "vertices").v
              us == [i \in DOMAIN list |-> autoUnmarshal(NewVertex(gop.cls), list[i])]
          IN IF \E i \in DOMAIN us : us[i].threw
             THEN GraphSettle("rejected", TypeErr)
             ELSE GraphSettle("resolved",
                              IF gop.op = "first"
                              THEN Pop(A([i \in DOMAIN us |-> us[i].vertex]))
                              ELSE A([i \in DOMAIN us |-> us[i].vertex]))
  /\ UNCHANGED <<applied, txs, calls, callOp, log, entity, entity0, txCreated,
                 resolvedWrites, parked, verified, obtained>>

\* Graph.create
HookEv(name) == Ev("hook", S(name))

createStart(bound) ==
  \E v \in Vertices({JUndef, S("0x1")}), traverse \in BOOLEAN,
     transaction \in {"ext", "auto"} :
    /\ BeginGraphCall(bound, "Graph.create", v)
    /\ UseTx(transaction)
    /\ gop' = [NoGop EXCEPT !.op = "create", !.tx = transaction,
                            !.pc = "beforeCreate", !.cls = v.c,
                            !.traverse = traverse]
    /\ log' = TxEvents(transaction) \o <<HookEv("beforeCreate")>>
    /\ result' = Pending
    /\ UNCHANGED <<applied, top, req, ret, resolvedWrites>>

GraphCreate == createStart(MaxCalls)

\* values = vertex.marshal(traverse); values["dgraph.type"] = values.type;
\* delete values.type
createValues(vertex, traverse) ==
  LET values == autoMarshal(vertex, traverse)
  IN Del(Put(values, "dgraph.type", Get(values, "type")), "type")

\* A create that throws Error(e) for the error of beforeCreate.
createMutateWrapped ==
  /\ AtHook("create", "beforeCreate")
  /\ \E outcome \in HookOutcomes :
       IF outcome = "rejects"
       THEN /\ GraphSettle("rejected", ErrorOf(HookErr))
            /\ UNCHANGED log
       ELSE LET en == mutateEnter(gop.tx, createValues(entity, gop.traverse), 0)
            IN /\ Enter(en, log)
               /\ gop' = [gop EXCEPT !.pc = "mutate", !.values = en.top.values]
  /\ UNCHANGED <<applied, txs, calls, callOp, entity, entity0, txCreated,
                 resolvedWrites, parked, verified, obtained>>

\* beforeCreate settled: marshal again and mutate.
createMutate ==
  /\ AtHook("create", "beforeCreate")
  /\ \E outcome \in HookOutcomes :
       IF outcome = "rejects"
       THEN /\ GraphSettle("rejected", HookErr)
            /\ UNCHANGED log
       ELSE LET en == mutateEnter(gop.tx, createValues(entity, gop.traverse), 0)
            IN /\ Enter(en, log)
               /\ gop' = [gop EXCEPT !.pc = "mutate", !.values = en.top.values]
  /\ UNCHANGED <<applied, txs, calls, callOp, entity, entity0, txCreated,
                 resolvedWrites, parked, verified, obtained>>

\* A create that invokes afterCreate whatever mutate returned.
createAssignHookFirst ==
  /\ Returned("create", "mutate")
  /\ log' = Append(log, HookEv("afterCreate"))
  /\ gop' = [gop EXCEPT !.pc = "afterCreate"]
  /\ ret' = NoRet
  /\ entity' = IF ret.status = "resolved" /\ Truthy(ret.value)
               THEN WithUid(entity, ret.value) ELSE entity
  /\ UNCHANGED <<applied, txs, calls, callOp, top, req, result, entity0,
                 txCreated, resolvedWrites, parked, verified, obtained>>

\* if (createdUid) { vertex.uid = createdUid; await vertex.afterCreate(values) }
createAssign ==
  /\ Returned("create", "mutate")
  /\ IF ret.status = "rejected"
     THEN /\ GraphSettle("rejected", ret.value)
          /\ UNCHANGED <<log, entity>>
     ELSE IF Truthy(ret.value)
     THEN /\ entity' = WithUid(entity, ret.value)
          /\ log' = log \o <<Ev("setUid", ret.value), HookEv("afterCreate")>>
          /\ gop' = [gop EXCEPT !.pc = "afterCreate"]
          /\ ret' = NoRet
          /\ UNCHANGED <<top, req, result>>
     ELSE /\ GraphSettle("resolved", entity)
          /\ UNCHANGED <<log, entity>>
  /\ UNCHANGED <<applied, txs, calls, callOp, entity0, txCreated,
                 resolvedWrites, parked, verified, obtained>>

createDone ==
  /\ AtHook("create", "afterCreate")
  /\ \E outcome \in HookOutcomes :
       IF outcome = "rejects" THEN GraphSettle("rejected", HookErr)
       ELSE GraphSettle("resolved", entity)
  /\ UNCHANGED <<applied, txs, calls, callOp, log, entity, entity0, txCreated,
                 resolvedWrites, parked, verified, obtained>>

\* Graph.delete
graphDeleteStart(bound) ==
  \E v \in Vertices({JUndef, S(""), S("0x1")}), traverse \in BOOLEAN,
     transaction \in {"ext", "auto"} :
    /\ BeginGraphCall(bound, "Graph.delete", v)
    /\ IF MissingUid(v)
       THEN Refuse(<<"Can", "not", "delete", "a", "vertex", "without", "a", "uid">>)
       ELSE /\ UseTx(transaction)
            /\ gop' = [NoGop EXCEPT !.op = "delete", !.tx = transaction,
                                    !.pc = "beforeDelete", !.cls = v.c,
                                    !.traverse = traverse,
                                    !.values = autoMarshal(v, traverse)]
            /\ log' = TxEvents(transaction) \o <<HookEv("beforeDelete")>>
            /\ result' = Pending
            /\ UNCHANGED <<applied, top, req, ret, resolvedWrites>>

GraphDelete == graphDeleteStart(MaxCalls)

\* A delete that sends the marshaled values.
graphDeleteSendValues ==
  /\ AtHook("delete", "beforeDelete")
  /\ \E outcome \in HookOutcomes :
       IF outcome = "rejects"
       THEN /\ GraphSettle("rejected", HookErr)
            /\ UNCHANGED log
       ELSE /\ deleteBegin(gop.tx, gop.values, log)
            /\ gop' = [gop EXCEPT !.pc = "delete"]
  /\ UNCHANGED <<applied, txs, calls, callOp, entity, entity0, txCreated,
                 resolvedWrites, parked, verified, obtained>>

\* beforeDelete settled: const delMut = { uid: vertex.uid }; tx.delete(delMut)
graphDeleteSend ==
  /\ AtHook("delete", "beforeDelete")
  /\ \E outcome \in HookOutcomes :
       IF outcome = "rejects"
       THEN /\ GraphSettle("rejected", HookErr)
            /\ UNCHANGED log
       ELSE /\ deleteBegin(gop.tx, O("uid" :> Get(entity, "uid")), log)
            /\ gop' = [gop EXCEPT !.pc = "delete"]
  /\ UNCHANGED <<applied, txs, calls, callOp, entity, entity0, txCreated,
                 resolvedWrites, parked, verified, obtained>>

graphDeleteAfter ==
  /\ Returned("delete", "delete")
  /\ IF ret.status = "rejected"
     THEN /\ GraphSettle("rejected", ret.value)
          /\ UNCHANGED log
     ELSE /\ log' = Append(log, HookEv("afterDelete"))
          /\ gop' = [gop EXCEPT !.pc = "afterDelete"]
          /\ ret' = NoRet
          /\ UNCHANGED <<top, req, result>>
  /\ UNCHANGED <<applied, txs, calls, callOp, entity, entity0, txCreated,
                 resolvedWrites, parked, verified, obtained>>

graphDeleteDone ==
  /\ AtHook("delete", "afterDelete")
  /\ \E outcome \in HookOutcomes :
       IF outcome = "rejects" THEN GraphSettle("rejected", HookErr)
       ELSE GraphSettle("resolved", B(TRUE))
  /\ UNCHANGED <<applied, txs, calls, callOp, log, entity, entity0, txCreated,
                 resolvedWrites, parked, verified, obtained>>

\* Graph.update
\* An update whose snapshot is always read at depth 3.
updateStartDepth3(bound) ==
  \E v \in Vertices({JUndef, S(""), S("0x1")}), traverse \in BOOLEAN,
     transaction \in {"ext", "auto"} :
    /\ BeginGraphCall(bound, "Graph.update", v)
    /\ IF MissingUid(v)
       THEN Refuse(<<"Can", "not", "save", "a", "vertex", "without", "a", "uid">>)
       ELSE /\ UseTx(transaction)
            /\ gop' = [NoGop EXCEPT !.op = "update", !.tx = transaction,
                                    !.pc = "uid", !.cls = v.c,
                                    !.traverse = traverse]
            /\ Enter(queryEnter(transaction,
                                VertexQuery(3), JUndef, 0),
                     TxEvents(transaction) \o <<Ev("call", B(traverse))>>)
            /\ UNCHANGED <<applied, resolvedWrites>>

updateStart(bound) ==
  \E v \in Vertices({JUndef, S(""), S("0x1")}), traverse \in BOOLEAN,
     transaction \in {"ext", "auto"} :
    /\ BeginGraphCall(bound, "Graph.update", v)
    /\ IF MissingUid(v)
       THEN Refuse(<<"Can", "not", "save", "a", "vertex", "without", "a", "uid">>)
       ELSE /\ UseTx(transaction)
            /\ gop' = [NoGop EXCEPT !.op = "update", !.tx = transaction,
                                    !.pc = "uid", !.cls = v.c,
                                    !.traverse = traverse]
            /\ Enter(queryEnter(transaction,
                                VertexQuery(IF traverse THEN 3 ELSE 1), JUndef, 0),
                     TxEvents(transaction) \o <<Ev("call", B(traverse))>>)
            /\ UNCHANGED <<applied, resolvedWrites>>

GraphUpdate == updateStart(MaxCalls)

\* Graph.uid returned: if (res?.vertex) return res.vertex.pop(); then
\* await vertex.beforeUpdate(currentValues, vertex.marshal(traverse))
updateSnapshot ==
  /\ Returned("update", "uid")
  /\ IF ret.status = "rejected"
     THEN /\ GraphSettle("rejected", ret.value)
          /\ UNCHANGED log
     ELSE /\ gop' = [gop EXCEPT !.pc = "beforeUpdate",
                                !.current =
                                  IF ret.value.t \in {"undefined", "null"}
                                     \/ ~Truthy(Get(ret.value, "vertex"))
                                  THEN JUndef
                                  ELSE Pop(Get(ret.value, "vertex"))]
          /\ log' = log \o <<HookEv("beforeUpdate"),
                              Ev("args", A(<<gop'.current,
                                             autoMarshal(entity, gop.traverse)>>))>>
          /\ ret' = NoRet
          /\ UNCHANGED <<top, req, result>>
  /\ UNCHANGED <<applied, txs, calls, callOp, entity, entity0, txCreated,
                 resolvedWrites, parked, verified, obtained>>

\* beforeUpdate settled: marshal again and mutate.
updateMutate ==
  /\ AtHook("update", "beforeUpdate")
  /\ \E outcome \in HookOutcomes :
       IF outcome = "rejects"
       THEN /\ GraphSettle("rejected", HookErr)
            /\ UNCHANGED log
       ELSE LET en == mutateEnter(gop.tx, autoMarshal(entity, gop.traverse), 0)
            IN /\ Enter(en, log)
               /\ gop' = [gop EXCEPT !.pc = "mutate", !.values = en.top.values]
  /\ UNCHANGED <<applied, txs, calls, callOp, entity, entity0, txCreated,
                 resolvedWrites, parked, verified, obtained>>

\* if (updated) await vertex.afterUpdate(currentValues, values)
updateMutated ==
  /\ Returned("update", "mutate")
  /\ IF ret.status = "rejected"
     THEN /\ GraphSettle("rejected", ret.value)
          /\ UNCHANGED log
     ELSE IF Truthy(ret.value)
     THEN /\ log' = log \o <<HookEv("afterUpdate"),
                              Ev("args", A(<<gop.current, gop.values>>))>>
          /\ gop' = [gop EXCEPT !.pc = "afterUpdate"]
          /\ ret' = NoRet
          /\ UNCHANGED <<top, req, result>>
     ELSE /\ GraphSettle("resolved", entity)
          /\ UNCHANGED log
  /\ UNCHANGED <<applied, txs, calls, callOp, entity, entity0, txCreated,
                 resolvedWrites, parked, verified, obtained>>

updateDone ==
  /\ AtHook("update", "afterUpdate")
  /\ \E outcome \in HookOutcomes :
       IF outcome = "rejects" THEN GraphSettle("rejected", HookErr)
       ELSE GraphSettle("resolved", entity)
  /\ UNCHANGED <<applied, txs, calls, callOp, log, entity, entity0, txCreated,
                 resolvedWrites, parked, verified, obtained>>

\* A save that invokes beforeUpdate.
saveStartHooked(bound) ==
  \E v \in Vertices({JUndef, S(""), S("0x1")}), traverse \in BOOLEAN,
     transaction \in {"ext", "auto"} :
    /\ BeginGraphCall(bound, "Graph.save", v)
    /\ IF MissingUid(v)
       THEN Refuse(<<"Can", "not", "save", "a", "vertex", "without", "a", "uid">>)
       ELSE LET en == mutateEnter(transaction, autoMarshal(v, traverse), 0)
            IN /\ UseTx(transaction)
               /\ gop' = [NoGop EXCEPT !.op = "save", !.tx = transaction,
                                       !.pc = "mutate", !.cls = v.c,
                                       !.traverse = traverse,
                                       !.values = en.top.values]
               /\ Enter(en, TxEvents(transaction) \o <<HookEv("beforeUpdate")>>)
               /\ UNCHANGED <<applied, resolvedWrites>>

\* Graph.save
saveStart(bound) ==
  \E v \in Vertices({JUndef, S(""), S("0x1")}), traverse \in BOOLEAN,
     transaction \in {"ext", "auto"} :
    /\ BeginGraphCall(bound, "Graph.save", v)
    /\ IF MissingUid(v)
       THEN Refuse(<<"Can", "not", "save", "a", "vertex", "without", "a", "uid">>)
       ELSE LET en == mutateEnter(transaction, autoMarshal(v, traverse), 0)
            IN /\ UseTx(transaction)
               /\ gop' = [NoGop EXCEPT !.op = "save", !.tx = transaction,
                                       !.pc = "mutate", !.cls = v.c,
                                       !.traverse = traverse,
                                       !.values = en.top.values]
               /\ Enter(en, TxEvents(transaction))
               /\ UNCHANGED <<applied, resolvedWrites>>

GraphSave == saveStart(MaxCalls)

saveMutated ==
  /\ Returned("save", "mutate")
  /\ IF ret.status = "rejected" THEN GraphSettle("rejected", ret.value)
     ELSE GraphSettle("resolved", entity)
  /\ UNCHANGED <<applied, txs, calls, callOp, log, entity, entity0, txCreated,
                 resolvedWrites, parked, verified, obtained>>

\* Graph.set
SetInputs ==
  {O("name" :> S("Zak")),
   O("name" :> S("Zak") @@ "_temp" :> S("x")),
   O("name" :> S("Zak") @@ "uid" :> S("0x9"))}

\* values.uid = uid; vertexValues = a copy of values without the keys that
\* start with "_"
setValues(uid, values) ==
  LET flat == Put(values, "uid", uid)
  IN O([k \in {j \in DOMAIN flat.v : ~Private(j)} |-> flat.v[k]])

setStart(bound) ==
  \E uid \in {S(""), S("0x1"), S("0x2")}, values \in SetInputs,
     transaction \in {"ext", "auto"} :
    /\ BeginGraphCall(bound, "Graph.set", JUndef)
    /\ UseTx(transaction)
    /\ gop' = [NoGop EXCEPT !.op = "set", !.tx = transaction, !.pc = "mutate",
                            !.values = setValues(uid, values)]
    /\ Enter(mutateEnter(transaction, setValues(uid, values), 0),
             TxEvents(transaction)
               \o <<Ev("call", O("uid" :> uid @@ "values" :> values))>>)
    /\ UNCHANGED <<applied, resolvedWrites>>

GraphSet == setStart(MaxCalls)

\* Graph.link and Graph.unlink
linkStart(bound) ==
  \E from \in Vertices({JUndef, S("0x1")}), toUid \in {JUndef, S(""), S("0x2")},
     verb \in {"link", "unlink"}, transaction \in {"ext", "auto"} :
    /\ BeginGraphCall(bound, "Graph." \o verb, from)
    /\ IF Truthy(Get(from, "uid")) /\ Truthy(toUid)
       THEN /\ UseTx(transaction)
            /\ gop' = [NoGop EXCEPT !.op = verb, !.tx = transaction,
                                    !.pc = "nquads"]
            /\ nquadsBegin(IF verb = "link" THEN "mutateNquads"
                           ELSE "deleteNquads",
                           transaction,
                           S("<" \o Get(from, "uid").v \o ">"), S("owner"),
                           S("<" \o toUid.v \o ">"),
                           TxEvents(transaction)
                             \o <<Ev("call", O("from" :> Get(from, "uid")
                                               @@ "to" :> toUid))>>)
            /\ UNCHANGED <<applied, resolvedWrites>>
       ELSE /\ result' = Settled("resolved", JUndef)
            /\ log' = <<Ev("call", O("from" :> Get(from, "uid")
                                     @@ "to" :> toUid))>>
            /\ txCreated' = 0
            /\ txs' = [txs EXCEPT !.auto = Transaction(TRUE, FALSE)]
            /\ UNCHANGED <<applied, gop, top, req, ret, resolvedWrites>>

GraphLink == linkStart(MaxCalls)

\* return await tx.mutate(vertexValues) / tx.mutateNquads(..) /
\* tx.deleteNquads(..): the verb settles as the Transaction method did.
passReturn ==
  /\ \/ Returned("set", "mutate")
     \/ Returned("link", "nquads")
     \/ Returned("unlink", "nquads")
  /\ GraphSettle(ret.status, ret.value)
  /\ UNCHANGED <<applied, txs, calls, callOp, log, entity, entity0, txCreated,
                 resolvedWrites, parked, verified, obtained>>

(***************************************************************************)
(* The caller.                                                             *)
(***************************************************************************)
Init ==
  /\ applied = {}
  /\ \E autoCommit \in BOOLEAN, readOnly \in BOOLEAN :
       txs = [ext |-> Transaction(autoCommit, readOnly),
              auto |-> Transaction(TRUE, FALSE)]
  /\ calls = 0
  /\ callOp = "none"
  /\ gop = NoGop
  /\ top = NoTop
  /\ req = NoReq
  /\ ret = NoRet
  /\ result = Settled("idle", JUndef)
  /\ log = <<>>
  /\ entity = JUndef
  /\ entity0 = JUndef
  /\ txCreated = 0
  /\ resolvedWrites = {}
  /\ parked = <<>>
  /\ verified = FALSE
  /\ obtained = [readOnly |-> txs.ext.txn.readOnly, count |-> 1]

TxSteps ==
  \/ queryOk \/ queryCatch \/ queryRetry
  \/ mutateOk \/ mutateCatch \/ mutateRetry
  \/ deleteOk \/ deleteCatch \/ deleteRetry
  \/ upsertOk \/ upsertCatch \/ upsertRetry
  \/ mutateNquadsOk \/ mutateNquadsCatch
  \/ deleteNquadsOk \/ deleteNquadsCatch
  \/ commitOk \/ commitFail
  \/ discardDone

GraphSteps ==
  \/ getReturn \/ loadReturn \/ firstReturn
  \/ createMutate \/ createAssign \/ createDone
  \/ graphDeleteSend \/ graphDeleteAfter \/ graphDeleteDone
  \/ updateSnapshot \/ updateMutate \/ updateMutated \/ updateDone
  \/ saveMutated
  \/ passReturn

Next ==
  \/ CallQuery \/ CallMutate \/ CallDelete \/ CallUpsert
  \/ CallMutateNquads \/ CallDeleteNquads \/ CallCommit \/ CallDiscard
  \/ GraphGet \/ GraphLoad \/ GraphFirst
  \/ GraphCreate \/ GraphDelete \/ GraphUpdate \/ GraphSave
  \/ GraphSet \/ GraphLink
  \/ TxSteps
  \/ GraphSteps

Spec == Init /\ [][Next]_vars

(***************************************************************************)
(* The caller composes mutations on its own Transaction and commits it.    *)
(***************************************************************************)
ComposeMutate == mutateStart(MaxSteps, MutateInputs) /\ UNCHANGED obtained

ComposeCommit == commitStart(MaxSteps) /\ UNCHANGED obtained

NextCompose ==
  \/ ComposeMutate \/ ComposeCommit
  \/ mutateOk \/ mutateCatch \/ mutateRetry
  \/ commitOk \/ commitFail

SpecCompose == Init /\ [][NextCompose]_vars

(***************************************************************************)
(* Calls in a row on the caller's Transaction: each may leave the handle   *)
(* replaced, mutated, committed or discarded for the next.                 *)
(***************************************************************************)
\* The handles the Transaction has had when a call begins: those before
\* the call that has ended and one for each newTxn of that call.
Tally ==
  obtained' =
    [obtained EXCEPT !.count =
       IF @ + Cardinality({i \in DOMAIN log : log[i].e = "newTxn"}) > MaxRetries + 2
       THEN MaxRetries + 2
       ELSE @ + Cardinality({i \in DOMAIN log : log[i].e = "newTxn"})]

SeqQuery == queryStart(MaxOps) /\ Tally

SeqMutate == mutateStart(MaxOps, MutateInputs) /\ Tally

SeqDelete == deleteStart(MaxOps) /\ Tally

SeqUpsert == upsertStart(MaxOps) /\ Tally

SeqCommit == commitStart(MaxOps) /\ Tally

SeqDiscard == discardStart(MaxOps) /\ Tally

NextSequence ==
  \/ SeqQuery \/ SeqMutate \/ SeqDelete \/ SeqUpsert
  \/ SeqCommit \/ SeqDiscard
  \/ queryOk \/ queryCatch \/ queryRetry
  \/ mutateOk \/ mutateCatch \/ mutateRetry
  \/ deleteOk \/ deleteCatch \/ deleteRetry
  \/ upsertOk \/ upsertCatch \/ upsertRetry
  \/ commitOk \/ commitFail
  \/ discardDone

SpecSequence == Init /\ [][NextSequence]_vars

(***************************************************************************)
(* Concurrent callers, as in "retries conflicting transactions": each has  *)
(* its own auto-commit Transaction and mutates or deletes the same uid.    *)
(* One call runs between two awaits; the others are parked.                *)
(***************************************************************************)
Racers == 1..MaxRacers

\* conn.newTransaction(true) of each caller
RacerTx(p) == "racer" \o ToString(p)

Context ==
  [top |-> top, req |-> req, ret |-> ret, result |-> result, log |-> log,
   callOp |-> callOp]

NotCalled ==
  [top |-> NoTop, req |-> NoReq, ret |-> NoRet,
   result |-> Settled("idle", JUndef), log |-> <<>>, callOp |-> "none"]

Running == [NotCalled EXCEPT !.result = Settled("running", JUndef)]

\* The call of p, running or parked.
ContextOf(p) == IF p = calls THEN Context ELSE parked[p]

\* The running call gives way to the call of p.
Yield(p) ==
  /\ p # calls
  /\ calls' = p
  /\ parked' = [q \in Racers |-> IF q = p THEN Running
                                 ELSE IF q = calls THEN Context
                                 ELSE parked[q]]

InitRace ==
  /\ applied = {}
  /\ txs = [k \in {RacerTx(p) : p \in Racers} |-> Transaction(TRUE, FALSE)]
  /\ calls = 0
  /\ callOp = "none"
  /\ gop = NoGop
  /\ top = NoTop
  /\ req = NoReq
  /\ ret = NoRet
  /\ result = Settled("idle", JUndef)
  /\ log = <<>>
  /\ entity = JUndef
  /\ entity0 = JUndef
  /\ txCreated = 0
  /\ resolvedWrites = {}
  /\ parked = [p \in Racers |-> NotCalled]
  /\ verified = FALSE
  /\ obtained = [readOnly |-> FALSE, count |-> 1]

\* conn.newTransaction(true).mutate({ uid, name: "Name" })
RaceMutate ==
  \E p \in Racers, name \in {"Name", "New Name"} :
    LET values == O("uid" :> S("0x1") @@ "name" :> S(name))
    IN /\ parked[p].result.status = "idle"
       /\ Yield(p)
       /\ callOp' = "Transaction.mutate"
       /\ Enter(mutateEnter(RacerTx(p), values, 0), <<Ev("call", values)>>)
       /\ UNCHANGED <<applied, txs, gop, entity, entity0, txCreated,
                      resolvedWrites, verified, obtained>>

\* conn.newTransaction(true).delete({ uid })
RaceDelete ==
  \E p \in Racers :
    LET values == O("uid" :> S("0x1"))
    IN /\ parked[p].result.status = "idle"
       /\ Yield(p)
       /\ callOp' = "Transaction.delete"
       /\ deleteBegin(RacerTx(p), values, <<Ev("call", values)>>)
       /\ UNCHANGED <<applied, txs, gop, entity, entity0, txCreated,
                      resolvedWrites, verified, obtained>>

\* A parked call that awaits the store or the back-off timer runs on.
RaceResume ==
  \E p \in Racers :
    /\ parked[p].result.status = "pending"
    /\ Yield(p)
    /\ top' = parked[p].top
    /\ req' = parked[p].req
    /\ ret' = parked[p].ret
    /\ result' = parked[p].result
    /\ log' = parked[p].log
    /\ callOp' = parked[p].callOp
    /\ UNCHANGED <<applied, txs, gop, entity, entity0, txCreated,
                   resolvedWrites, verified, obtained>>

\* The retry of delete enters query with the values as query text, which
\* the client cannot send.
NextRace ==
  \/ RaceMutate \/ RaceDelete \/ RaceResume
  \/ mutateOk \/ mutateCatch \/ mutateRetry
  \/ deleteOk \/ deleteCatch \/ deleteRetry
  \/ queryCatch

SpecRace == InitRace /\ [][NextRace]_vars

(***************************************************************************)
(* Graph.expansion: the expansion phrase of a depth, read from the table   *)
(* Graph.Depths that is built once when the class is loaded.               *)
(***************************************************************************)
\* A nest that leaves the braces out.
nestFlat(s) == "uid expand(_all_) " \o s

\* const nest = (s) => `uid expand(_all_) { ${s} }`
nest(s) == "uid expand(_all_) { " \o s \o " }"

RECURSIVE DepthsLoop(_, _, _)
\* for (let i = 1; i < 11; i++) { depths[i] = expression;
\*                                expression = nest(expression) }
DepthsLoop(i, expression, depths) ==
  IF i < 11
  THEN DepthsLoop(i + 1, nest(expression), (i :> expression) @@ depths)
  ELSE depths

Depths == DepthsLoop(1, "uid expand(_all_)", <<>>)

\* static expansion(depth): what it returns or throws.
expansion(depth) ==
  IF depth < 1 \/ depth > 10
  THEN Settled("thrown", Err(<<"Invalid", "depth.", "Should", "be", "between",
                               "1", "and", "10.">>))
  ELSE Settled("returned", S(Depths[depth]))

\* The depths the caller passes.
ExpansionDepths == -2 .. 13

CallExpansion ==
  /\ calls < MaxExpansions
  /\ calls' = calls + 1
  /\ callOp' = "Graph.expansion"
  /\ \E depth \in ExpansionDepths :
       /\ result' = expansion(depth)
       /\ log' = Append(log, Ev("expansion", [depth |-> depth,
                                               out |-> expansion(depth)]))
  /\ UNCHANGED <<applied, txs, gop, top, req, ret, entity, entity0, txCreated,
                 resolvedWrites, parked, verified, obtained>>

SpecExpansion == Init /\ [][CallExpansion]_vars

(***************************************************************************)
(* Graph.all: the query function it builds from its options.               *)
(***************************************************************************)
\* { limit = 1000 } and limit = limit < 10000 ? limit : 1000
allLimit(limit) ==
  LET given == IF limit.t = "undefined" THEN 1000 ELSE limit.v
  IN IF given < 10000 THEN given ELSE 1000

\* (order && `, ${order}`) ?? ""
orderPhrase(order) ==
  IF Truthy(order) THEN ", " \o order.v
  ELSE IF order.t \in {"undefined", "null"} THEN ""
  ELSE order.v

\* `, first:${limit}`
limitPhrase(limit) == ", first:" \o ToString(limit)

\* (offset && `, offset:${offset}`) ?? ""
offsetPhrase(offset) ==
  IF Truthy(offset) THEN ", offset:" \o ToString(offset.v)
  ELSE IF offset.t \in {"undefined", "null"} THEN ""
  ELSE ToString(offset.v)

\* `type(${vertexClass.name}) ${orderPhrase} ${limitPhrase} ${offsetPhrase}`
allFunction(cls, order, limit, offset) ==
  "type(" \o cls \o ") " \o orderPhrase(order) \o " "
    \o limitPhrase(allLimit(limit)) \o " " \o offsetPhrase(offset)

\* The limits the caller passes: none, or a number.
AllLimits == {JUndef} \cup {N(n) : n \in {-1, 0, 1, 999, 1000, 9999, 10000, 10001}}

\* graph.all(cls, { order, limit, offset }) up to the query function it
\* hands to queryWithFunction.
CallAll ==
  /\ calls < MaxAlls
  /\ calls' = calls + 1
  /\ callOp' = "Graph.all"
  /\ \E cls \in {"Pet", "Owner"}, order \in {JUndef, S("orderasc:name")},
        limit \in AllLimits, offset \in {JUndef, N(0), N(5)} :
       /\ result' = Settled("returned", S(allFunction(cls, order, limit, offset)))
       /\ log' = Append(log, Ev("all", [limit |-> limit,
                                         first |-> allLimit(limit),
                                         phrase |-> limitPhrase(allLimit(limit))]))
  /\ UNCHANGED <<applied, txs, gop, top, req, ret, entity, entity0, txCreated,
                 resolvedWrites, parked, verified, obtained>>

SpecAll == Init /\ [][CallAll]_vars

(***************************************************************************)
(* Vertex.marshal and Vertex.unmarshal on the fixtures, called in a row on *)
(* one instance or on a new instance of its class.                         *)
(***************************************************************************)
Tom == [NewVertex("Pet") EXCEPT !.v["name"] = S("Tom"), !.v["name$ur"] = S("X"),
                                !.v["uid"] = S("0x5")]

Kit == [NewVertex("Pet") EXCEPT !.v["name"] = S("Kit"), !.v["uid"] = S("0x6")]

Zak == [NewVertex("Owner") EXCEPT !.v["name"] = S("Zak"), !.v["uid"] = S("0x7")]

\* The entities marshal is called on: the edge fields hold an entity, a
\* list, null, undefined or another falsy value.
MarshalInputs ==
  {[Named(NewVertex("Pet")) EXCEPT !.v["name$ur"] = ur, !.v["owner"] = owner,
                                   !.v["origin"] = origin] :
     ur \in {S(""), S("X")},
     owner \in {JUndef, JNull, S(""), Zak, [Zak EXCEPT !.v["pets"] = A(<<Tom>>)]},
     origin \in {JUndef, Named(NewVertex("Origin"))}}
  \cup {[Named(NewVertex("Origin")) EXCEPT !.v["pets"] = pets] :
          pets \in {JUndef, A(<<>>), A(<<Tom>>)}}
  \cup {[Zak EXCEPT !.v["pets"] = pets] : pets \in {JUndef, A(<<Tom, Kit>>)}}

\* The values unmarshal is given, as the store returns them.
UnmarshalInputs(cls) ==
  LET tom == O("uid" :> S("0x5") @@ "name" :> S("Tom") @@ "name@ur" :> S("X"))
      kit == O("uid" :> S("0x6") @@ "name" :> S("Kit"))
      zak == O("uid" :> S("0x7") @@ "name" :> S("Zak"))
      ann == O("uid" :> S("0x8") @@ "name" :> S("Ann"))
      named == "uid" :> S("0x1") @@ "name" :> S("Biggles")
  IN IF cls = "Pet"
     THEN {O(named), O(named @@ "name@ur" :> S("Y")),
           O(named @@ "owner" :> A(<<zak>>)),
           O(named @@ "owner" :> A(<<zak, ann>>))}
     ELSE IF cls = "Origin"
     THEN {O(named), O(named @@ "~origin" :> A(<<tom, kit>>)),
           O(named @@ "pets" :> A(<<kit>>)),
           O(named @@ "pets" :> A(<<kit>>) @@ "~origin" :> A(<<tom>>))}
     ELSE {O(named), O(named @@ "pets" :> A(<<tom, kit>>))}

InitMarshal ==
  /\ applied = {}
  /\ txs = [ext |-> Transaction(FALSE, FALSE), auto |-> Transaction(TRUE, FALSE)]
  /\ calls = 0
  /\ callOp = "none"
  /\ gop = NoGop
  /\ top = NoTop
  /\ req = NoReq
  /\ ret = NoRet
  /\ result = Settled("idle", JUndef)
  /\ log = <<>>
  /\ entity \in MarshalInputs
  /\ entity0 = entity
  /\ txCreated = 0
  /\ resolvedWrites = {}
  /\ parked = <<>>
  /\ verified = FALSE
  /\ obtained = [readOnly |-> txs.ext.txn.readOnly, count |-> 1]

\* vertex.marshal(traverse)
CallMarshal ==
  /\ calls < MaxMarshals
  /\ calls' = calls + 1
  /\ callOp' = "Vertex.marshal"
  /\ \E traverse \in BOOLEAN :
       /\ result' = Settled("returned", autoMarshal(entity, traverse))
       /\ log' = Append(log, Ev("marshal", [vertex |-> entity,
                                             traverse |-> traverse,
                                             out |-> autoMarshal(entity, traverse)]))
  /\ UNCHANGED <<applied, txs, gop, top, req, ret, entity, entity0, txCreated,
                 resolvedWrites, parked, verified, obtained>>

\* vertex.unmarshal(values) or new cls().unmarshal(values), the values
\* being the store's or what marshal has just returned.
CallUnmarshal ==
  /\ calls < MaxMarshals
  /\ calls' = calls + 1
  /\ callOp' = "Vertex.unmarshal"
  /\ \E target \in {entity, NewVertex(entity.c)},
        values \in UnmarshalInputs(entity.c)
                     \cup (IF callOp = "Vertex.marshal" THEN {result.value}
                           ELSE {}) :
       LET u == autoUnmarshal(target, values)
       IN /\ entity' = u.vertex
          /\ result' = IF u.threw THEN Settled("thrown", TypeErr)
                       ELSE Settled("returned", u.vertex)
          /\ log' = Append(log, Ev("unmarshal", [vertex |-> target,
                                                 values |-> values,
                                                 out |-> u.vertex,
                                                 threw |-> u.threw]))
  /\ UNCHANGED <<applied, txs, gop, top, req, ret, entity0, txCreated,
                 resolvedWrites, parked, verified, obtained>>

NextMarshal == CallMarshal \/ CallUnmarshal

SpecMarshal == InitMarshal /\ [][NextMarshal]_vars

(***************************************************************************)
(* Vertex.marshal on entities that refer to each other: the entities are   *)
(* objects with an identity, an edge field holds references, and the       *)
(* references may form a cycle.                                            *)
(***************************************************************************)
Ref(id) == [t |-> "ref", id |-> id]

\* A pet a, an owner b and a pet c: a.owner and c.owner are b or nothing,
\* b.pets lists a, c, both or nothing.
EntityGraphs ==
  {"a" :> [Tom EXCEPT !.v["owner"] = ownerOfA]
   @@ "b" :> [Zak EXCEPT !.v["pets"] = pets]
   @@ "c" :> [Kit EXCEPT !.v["owner"] = ownerOfC] :
     ownerOfA \in {JUndef, Ref("b")},
     ownerOfC \in {JUndef, Ref("b")},
     pets \in {JUndef, A(<<>>), A(<<Ref("a")>>), A(<<Ref("c")>>),
               A(<<Ref("a"), Ref("c")>>)}}

RangeErr == Err(<<"RangeError:", "Maximum", "call", "stack", "size", "exceeded">>)

RECURSIVE marshal(_, _, _, _)
\* heap[id].marshal(traverse) -> autoMarshal(traverse), entered with the
\* given number of marshal calls on the stack: a populated Directed edge
\* is marshaled by p.marshal(), whose traverse defaults to true. The call
\* throws when the stack has no room for it.
marshal(heap, id, traverse, frames) ==
  IF frames >= MaxStack THEN [threw |-> TRUE, val |-> JUndef]
  ELSE
    LET vertex == heap[id]
        edges == Edges(vertex.c)
        isEdge(k) == Truthy(vertex.v[k]) /\ k \in DOMAIN edges
        emitted == {k \in DOMAIN vertex.v :
                      /\ ~Private(k)
                      /\ isEdge(k) => (traverse /\ Direction(edges[k]) = "Directed")}
        nested(k) ==
          IF ~isEdge(k) THEN [threw |-> FALSE, val |-> vertex.v[k]]
          ELSE IF vertex.v[k].t = "array"
          THEN LET ms == [i \in DOMAIN vertex.v[k].v |->
                            marshal(heap, vertex.v[k].v[i].id, TRUE, frames + 1)]
               IN [threw |-> \E i \in DOMAIN ms : ms[i].threw,
                   val |-> A([i \in DOMAIN ms |-> ms[i].val])]
          ELSE IF vertex.v[k].t = "ref"
          THEN marshal(heap, vertex.v[k].id, TRUE, frames + 1)
          ELSE [threw |-> FALSE, val |-> vertex.v[k]]
    IN IF \E k \in emitted : nested(k).threw
       THEN [threw |-> TRUE, val |-> JUndef]
       ELSE [threw |-> FALSE,
             val |-> O([sk \in {ToStoreKey(k) : k \in emitted} |->
                          nested(CHOOSE k \in emitted : ToStoreKey(k) = sk).val])]

InitCycle ==
  /\ applied = {}
  /\ txs = [ext |-> Transaction(FALSE, FALSE), auto |-> Transaction(TRUE, FALSE)]
  /\ calls = 0
  /\ callOp = "none"
  /\ gop = NoGop
  /\ top = NoTop
  /\ req = NoReq
  /\ ret = NoRet
  /\ result = Settled("idle", JUndef)
  /\ log = <<>>
  /\ entity \in EntityGraphs
  /\ entity0 = entity
  /\ txCreated = 0
  /\ resolvedWrites = {}
  /\ parked = <<>>
  /\ verified = FALSE
  /\ obtained = [readOnly |-> FALSE, count |-> 1]

\* entity[id].marshal(traverse), called with an empty stack
CallMarshalGraph ==
  /\ calls < MaxGraphCalls
  /\ calls' = calls + 1
  /\ callOp' = "Vertex.marshal"
  /\ \E id \in DOMAIN entity, traverse \in BOOLEAN :
       LET m == marshal(entity, id, traverse, 0)
       IN /\ result' = IF m.threw THEN Settled("thrown", RangeErr)
                       ELSE Settled("returned", m.val)
          /\ log' = Append(log, Ev("marshalGraph", [id |-> id,
                                                    traverse |-> traverse,
                                                    threw |-> m.threw]))
  /\ UNCHANGED <<applied, txs, gop, top, req, ret, entity, entity0, txCreated,
                 resolvedWrites, parked, verified, obtained>>

SpecCycle == InitCycle /\ [][CallMarshalGraph]_vars

(***************************************************************************)
(* Connection.connect: the probe query on a Transaction of its own.        *)
(***************************************************************************)
BeginConnectionCall(bound, op) ==
  /\ Idle
  /\ calls < bound
  /\ calls' = calls + 1
  /\ callOp' = op
  /\ UNCHANGED <<entity, entity0, parked, obtained>>

\* const tx = new Transaction(this, true, false, true); await tx.query(..)
connectStart(bound) ==
  \E announce \in BOOLEAN :
    /\ BeginConnectionCall(bound, "Connection.connect")
    /\ txs' = [txs EXCEPT !.auto = Transaction(TRUE, TRUE)]
    /\ txCreated' = 1
    /\ gop' = [NoGop EXCEPT !.op = "connect", !.tx = "auto", !.pc = "query",
                            !.values = B(announce)]
    /\ Enter(queryEnter("auto", ProbeQuery, JUndef, 0),
             <<Ev("call", B(announce))>>)
    /\ UNCHANGED <<applied, resolvedWrites, verified, obtained>>

ConnectionConnect == connectStart(MaxConnects)

\* res.total.pop().count cannot be read.
announceThrows(res) ==
  \/ res.t \in {"undefined", "null"}
  \/ Get(res, "total").t # "array"
  \/ Pop(Get(res, "total")).t \in {"undefined", "null"}

\* A connect that leaves verified as it was when the probe fails.
connectReturnSticky ==
  /\ Returned("connect", "query")
  /\ LET threw == \/ ret.status = "rejected"
                  \/ gop.values.v /\ announceThrows(ret.value)
     IN /\ verified' = (verified \/ ~threw)
        /\ GraphSettle("resolved", B(~threw))
  /\ UNCHANGED <<applied, txs, calls, callOp, log, entity, entity0, txCreated,
                 resolvedWrites, parked, obtained>>

\* The query returned: announce, this.verified = true, return true; or the
\* catch: this.verified = false, return false.
connectReturn ==
  /\ Returned("connect", "query")
  /\ LET threw == \/ ret.status = "rejected"
                  \/ gop.values.v /\ announceThrows(ret.value)
     IN /\ verified' = ~threw
        /\ GraphSettle("resolved", B(~threw))
  /\ UNCHANGED <<applied, txs, calls, callOp, log, entity, entity0, txCreated,
                 resolvedWrites, parked, obtained>>

(***************************************************************************)
(* Graph.clear: Connection.clear, then the schema again after a drop-all.  *)
(***************************************************************************)
ClearTypes == {JUndef, JNull, S(""), S("Pet")}

AlterEv(what) == Ev("alter", S(what))

\* The errors client.alter can be rejected with.
AlterFailures == {AbortedErr, UnavailableErr}

\* Graph.clear(type) -> Connection.clear(type): if (type) query the
\* vertices of the type, else alter with drop-all.
clearStart(bound) ==
  \E type \in ClearTypes :
    /\ BeginConnectionCall(bound, "Graph.clear")
    /\ IF Truthy(type)
       THEN /\ txs' = [txs EXCEPT !.auto = Transaction(TRUE, TRUE)]
            /\ txCreated' = 1
            /\ gop' = [NoGop EXCEPT !.op = "clear", !.tx = "auto",
                                    !.pc = "query", !.values = type]
            /\ Enter(queryEnter("auto", ClearQuery, JUndef, 0),
                     <<Ev("call", type)>>)
       ELSE /\ gop' = [NoGop EXCEPT !.op = "clear", !.pc = "dropAll",
                                    !.values = type]
            /\ log' = <<Ev("call", type), AlterEv("dropAll")>>
            /\ result' = Pending
            /\ txCreated' = 0
            /\ UNCHANGED <<txs, top, req, ret>>
    /\ UNCHANGED <<applied, resolvedWrites, verified, obtained>>

GraphClear == clearStart(MaxConnects)

\* if (res && res.vertices) await this.newTransaction(true).delete(res.vertices)
clearQueried ==
  /\ Returned("clear", "query")
  /\ IF ret.status = "rejected"
     THEN /\ GraphSettle("rejected", ErrorOf(ret.value))
          /\ UNCHANGED <<log, txs, txCreated>>
     ELSE IF Truthy(ret.value) /\ Truthy(Get(ret.value, "vertices"))
     THEN /\ txs' = [txs EXCEPT !.auto = Transaction(TRUE, FALSE)]
          /\ txCreated' = txCreated + 1
          /\ gop' = [gop EXCEPT !.pc = "delete"]
          /\ deleteBegin("auto", Get(ret.value, "vertices"),
                         Append(log, Ev("newTransaction", B(TRUE))))
     ELSE /\ GraphSettle("resolved", JUndef)
          /\ UNCHANGED <<log, txs, txCreated>>
  /\ UNCHANGED <<applied, calls, callOp, entity, entity0, resolvedWrites,
                 parked, verified, obtained>>

\* The delete returned: a clear by type applies no schema.
clearDeleted ==
  /\ Returned("clear", "delete")
  /\ IF ret.status = "rejected"
     THEN GraphSettle("rejected", ErrorOf(ret.value))
     ELSE GraphSettle("resolved", JUndef)
  /\ UNCHANGED <<applied, txs, calls, callOp, log, entity, entity0, txCreated,
                 resolvedWrites, parked, verified, obtained>>

\* client.alter(dropAll) settled: throw Error(e), or back in Graph.clear
\* if (type == undefined) await this.setIndicesAndTypes()
clearDropped ==
  /\ gop.op = "clear" /\ gop.pc = "dropAll"
  /\ \/ /\ applied' = {}
        /\ IF gop.values.t \in {"undefined", "null"}
           THEN /\ log' = log \o <<Ev("ok", S("dropAll")), AlterEv("schema")>>
                /\ gop' = [gop EXCEPT !.pc = "schema", !.current = N(0)]
                /\ UNCHANGED <<top, req, ret, result>>
           ELSE /\ log' = Append(log, Ev("ok", S("dropAll")))
                /\ GraphSettle("resolved", JUndef)
     \/ \E e \in AlterFailures :
          /\ log' = Append(log, Ev("fail", e))
          /\ GraphSettle("rejected", ErrorOf(e))
          /\ UNCHANGED applied
  /\ UNCHANGED <<txs, calls, callOp, entity, entity0, txCreated,
                 resolvedWrites, parked, verified, obtained>>

\* An applySchema that recurses with the same retry count.
applySchemaSameCount ==
  /\ gop.op = "clear" /\ gop.pc = "schema"
  /\ \/ /\ log' = log \o <<Ev("ok", S("schema")), Ev("wait", JUndef)>>
        /\ gop' = [gop EXCEPT !.pc = "built"]
        /\ UNCHANGED <<top, req, ret, result>>
     \/ \E e \in AlterFailures :
          IF shouldRetry(e, gop.current.v)
          THEN /\ log' = log \o <<Ev("fail", e), Ev("wait", JUndef),
                                   AlterEv("schema")>>
               /\ UNCHANGED <<gop, top, req, ret, result>>
          ELSE /\ log' = Append(log, Ev("fail", e))
               /\ GraphSettle("rejected", ErrorOf(e))
  /\ UNCHANGED <<applied, txs, calls, callOp, entity, entity0, txCreated,
                 resolvedWrites, parked, verified, obtained>>

\* Connection.applySchema: client.alter(schema) settled; on shouldRetry wait
\* and alter again; then waitPromise("set indices", SchemaBuildTime).
applySchema ==
  /\ gop.op = "clear" /\ gop.pc = "schema"
  /\ \/ /\ log' = log \o <<Ev("ok", S("schema")), Ev("wait", JUndef)>>
        /\ gop' = [gop EXCEPT !.pc = "built"]
        /\ UNCHANGED <<top, req, ret, result>>
     \/ \E e \in AlterFailures :
          IF shouldRetry(e, gop.current.v)
          THEN /\ log' = log \o <<Ev("fail", e), Ev("wait", JUndef),
                                   AlterEv("schema")>>
               /\ gop' = [gop EXCEPT !.current = N(@.v + 1)]
               /\ UNCHANGED <<top, req, ret, result>>
          ELSE /\ log' = Append(log, Ev("fail", e))
               /\ GraphSettle("rejected", ErrorOf(e))
  /\ UNCHANGED <<applied, txs, calls, callOp, entity, entity0, txCreated,
                 resolvedWrites, parked, verified, obtained>>

\* The schema build time is over: Graph.clear returns.
clearBuilt ==
  /\ gop.op = "clear" /\ gop.pc = "built"
  /\ GraphSettle("resolved", JUndef)
  /\ UNCHANGED <<applied, txs, calls, callOp, log, entity, entity0, txCreated,
                 resolvedWrites, parked, verified, obtained>>

NextConnection ==
  \/ ConnectionConnect \/ connectReturn
  \/ GraphClear \/ clearQueried \/ clearDeleted \/ clearDropped
  \/ applySchema \/ clearBuilt
  \/ queryOk \/ queryCatch \/ queryRetry
  \/ deleteOk \/ deleteCatch \/ deleteRetry

SpecConnection == Init /\ [][NextConnection]_vars

(***************************************************************************)
(* Properties. They read the events of the current call.                   *)
(***************************************************************************)
Events(kind) == {i \in DOMAIN log : log[i].e = kind}

Hooked(name) == {i \in DOMAIN log : log[i].e = "hook" /\ log[i].a = S(name)}

Last(indices) == CHOOSE i \in indices : \A j \in indices : j <= i

First(indices) == CHOOSE i \in indices : \A j \in indices : i <= j

Retried == {"Transaction.query", "Transaction.mutate", "Transaction.upsert"}

\* C1: query, mutate and upsert never send more than MaxRetries + 1
\* requests, never wait for another attempt after the last one, and when
\* every attempt failed with the retryable error they have sent exactly
\* MaxRetries + 1 requests and reject with the store's error.
RetryBound ==
  callOp \in Retried =>
    /\ Cardinality(Events("send")) <= MaxRetries + 1
    /\ top.pc = "wait" => Cardinality(Events("send")) <= MaxRetries
    /\ (/\ result.status = "rejected"
        /\ Events("fail") # {}
        /\ \A i \in Events("fail") : log[i].a = AbortedErr)
         => /\ Cardinality(Events("send")) = MaxRetries + 1
            /\ Cardinality(Events("fail")) = MaxRetries + 1
            /\ result.value = ErrorOf(AbortedErr)

RetryBoundReached ==
  /\ callOp = "Transaction.upsert"
  /\ result.status = "rejected"
  /\ Cardinality(Events("send")) = MaxRetries + 1
  /\ \A i \in Events("fail") : log[i].a = AbortedErr

\* C2: once commit() resolved on the caller's non-auto-commit Transaction,
\* the mutations that resolved on it are all applied or none is.
AtomicComposition ==
  (/\ callOp = "Transaction.commit"
   /\ result.status = "resolved"
   /\ ~txs.ext.autoCommit)
    => \/ resolvedWrites \subseteq applied
       \/ resolvedWrites \cap applied = {}

\* C3: create invokes beforeCreate exactly once and before every write
\* attempt; afterCreate at most once, after every write attempt, after the
\* store's answer and after the id was assigned; when the call is rejected
\* without a successful write, afterCreate was not invoked and the entity
\* is as it was.
CreateHookOrder ==
  callOp = "Graph.create" =>
    LET before == Hooked("beforeCreate")
        after == Hooked("afterCreate")
        sends == Events("send")
        oks == Events("ok")
        assigned == Events("setUid")
    IN /\ Cardinality(before) = 1
       /\ \A b \in before, i \in sends : b < i
       /\ Cardinality(after) <= 1
       /\ \A a \in after :
            /\ oks # {}
            /\ \A i \in sends \cup oks : i < a
            /\ \E k \in assigned :
                 /\ Last(oks) < k /\ k < a
                 /\ Get(entity, "uid") = log[k].a
       /\ (result.status = "rejected" /\ oks = {})
            => after = {} /\ entity = entity0

CreateRetriedThenHooked ==
  /\ callOp = "Graph.create"
  /\ result.status = "resolved"
  /\ Hooked("afterCreate") # {}
  /\ Cardinality(Events("send")) >= 2

\* C4: when create has resolved, afterCreate was invoked only if the id map
\* of the store's answer holds an id for the created node, and then the
\* entity's uid is that id and not the placeholder.
CreateIdFromStore ==
  (callOp = "Graph.create" /\ result.status = "resolved") =>
    LET id == Get(log[Last(Events("ok"))].a, PlaceholderKey)
    IN Hooked("afterCreate") # {} =>
         /\ Truthy(id)
         /\ Get(entity, "uid") = id
         /\ Get(entity, "uid") # Placeholder

Guarded == {"Graph.update", "Graph.delete", "Graph.save", "Graph.load"}

\* C5: update, delete, save and load on an entity without uid (absent or
\* empty) are rejected with the missing-uid error; no Transaction was
\* created, nothing was sent, no hook was invoked and the entity is as it
\* was.
MissingIdRefused ==
  (callOp \in Guarded /\ ~Truthy(Get(entity0, "uid"))) =>
    /\ result.status = "rejected"
    /\ Includes(result.value.message, "uid")
    /\ txCreated = 0
    /\ log = <<>>
    /\ req = NoReq /\ top = NoTop /\ gop = NoGop
    /\ entity = entity0

EmptyIdRefused ==
  /\ callOp = "Graph.save"
  /\ Get(entity0, "uid") = S("")
  /\ result.status = "rejected"

Finders == {"Graph.get", "Graph.load", "Graph.first"}

\* C6: when the query of get, load or first succeeded with an empty list
\* of matches, the call resolves with undefined.
NothingFoundIsUndefined ==
  (/\ callOp \in Finders
   /\ result.status \in {"resolved", "rejected"}
   /\ Events("ok") # {}) =>
    LET res == log[Last(Events("ok"))].a
        block == IF callOp = "Graph.first" THEN "vertices" ELSE "vertex"
    IN Get(res, block) = A(<<>>) => result = Settled("resolved", JUndef)

\* C7: every request Transaction.delete sends is the delete-mutation of the
\* values it was called with, and it sends at most MaxRetries + 1 of them.
DeleteRetriesDelete ==
  callOp = "Transaction.delete" =>
    /\ \A i \in Events("send") :
         /\ log[i].a.kind = "mutate"
         /\ log[i].a.mu = "deleteJson"
         /\ log[i].a.body = log[1].a
    /\ Cardinality(Events("send")) <= MaxRetries + 1

\* C8: Transaction.delete sends nothing and resolves with undefined when
\* the values have no uid and are not a non-empty list; otherwise it sends
\* a delete-mutation.
DeleteNoop ==
  callOp = "Transaction.delete" =>
    LET values == log[1].a
        nothing == /\ ~Truthy(Get(values, "uid"))
                   /\ ~(values.t = "array" /\ Len(values.v) > 0)
    IN IF nothing
       THEN Events("send") = {} /\ result = Settled("resolved", JUndef)
       ELSE /\ Events("send") # {}
            /\ log[2].e = "send" /\ log[2].a.mu = "deleteJson"

\* C9: Transaction.mutate resolves with the id the store mapped to the
\* placeholder if it mapped one, otherwise with the uid the payload had
\* when mutate was called; what is sent is the payload, with the
\* placeholder as uid if it had none.
MutateResolvesId ==
  (callOp = "Transaction.mutate" /\ result.status = "resolved") =>
    LET values == log[1].a
        id == Get(log[Last(Events("ok"))].a, PlaceholderKey)
    IN /\ result.value = IF Truthy(id) THEN id ELSE Get(values, "uid")
       /\ \A i \in Events("send") :
            log[i].a.body = IF Truthy(Get(values, "uid")) THEN values
                            ELSE Put(values, "uid", Placeholder)

Discarding ==
  {"Transaction.query", "Transaction.mutate", "Transaction.delete",
   "Transaction.upsert", "Transaction.mutateNquads", "Transaction.deleteNquads"}

\* C10: when a Transaction method is rejected after a failed request whose
\* discard failed too, the caller gets the request's error.
StoreErrorNotMasked ==
  (/\ callOp \in Discarding
   /\ result.status = "rejected"
   /\ Len(log) >= 2
   /\ log[Len(log)].e = "discard"
   /\ log[Len(log)].a \in {S("rejects"), S("throws")})
    => result.value = ErrorOf(log[Len(log) - 1].a)

\* The store rejected no mutation of the call other than by aborting it
\* with the retryable error, and that at most MaxRetries times.
AbortsWithinBudget(l) ==
  LET failed == {i \in DOMAIN l : /\ l[i].e = "fail"
                                  /\ l[i - 1].e = "send"
                                  /\ l[i - 1].a.kind = "mutate"}
  IN /\ \A i \in failed : l[i].a = AbortedErr
     /\ Cardinality(failed) <= MaxRetries

\* C11: every concurrent mutate or delete whose attempts the store aborted
\* at most MaxRetries times has, once settled, resolved and applied its
\* own write.
RacersAllApply ==
  \A p \in Racers :
    LET c == ContextOf(p)
    IN (c.result.status \in {"resolved", "rejected"} /\ AbortsWithinBudget(c.log))
         => c.result.status = "resolved" /\ p \in applied

NquadOps == {"Transaction.mutateNquads", "Transaction.deleteNquads"}

\* C12: mutateNquads and deleteNquads send nothing and resolve with
\* undefined when the object is null; otherwise they send exactly one
\* single-triple mutation; when it fails they send nothing more, allocate
\* no handle, have requested the discard once and reject with the error of
\* the failed request.
NquadsNoRetry ==
  callOp \in NquadOps =>
    LET object == log[1].a
        sends == Events("send")
    IN /\ Events("newTxn") = {} /\ Events("wait") = {}
       /\ IF object = JNull
          THEN sends = {} /\ result = Settled("resolved", JUndef)
          ELSE /\ sends = {2}
               /\ log[2].a.kind = "mutate"
               /\ log[2].a.mu = IF callOp = "Transaction.mutateNquads"
                                THEN "setNquads" ELSE "delNquads"
               /\ log[2].a.body = Nquad(S("<0x1>"), S("owner"), object)
       /\ Events("fail") # {} =>
            /\ Cardinality(Events("fail")) = 1
            /\ Cardinality(Events("discard")) = 1
            /\ txs.ext.txn.discardRequested
            /\ result = Settled("rejected", ErrorOf(log[Last(Events("fail"))].a))

\* C13: every request of upsert is one combined request with the read
\* query, one set-mutation of the values, the condition as guard iff one
\* was given, and commit-now; upsert resolves, with true, iff an attempt
\* succeeded, and its write is then applied without a commit.
UpsertCommitsNow ==
  callOp = "Transaction.upsert" =>
    LET condition == log[1].a
    IN /\ \A i \in Events("send") :
            /\ log[i].a.kind = "doRequest"
            /\ log[i].a.vars = S("query " \o PlainQuery.v)
            /\ log[i].a.mu = "setJson"
            /\ log[i].a.body = UpsertValues
            /\ log[i].a.cond = IF condition = JUndef THEN JUndef
                               ELSE S("@if(" \o condition.v \o ")")
            /\ log[i].a.commitNow
       /\ Cardinality(Events("send")) <= MaxRetries + 1
       /\ result.status = "resolved" <=> Events("ok") # {}
       /\ result.status = "resolved" =>
            result.value = B(TRUE) /\ Write \in applied
       /\ result.status = "rejected" => Events("ok") = {}

GraphVerbs ==
  {"Graph.get", "Graph.load", "Graph.query", "Graph.all", "Graph.first",
   "Graph.create", "Graph.update", "Graph.delete", "Graph.save", "Graph.set",
   "Graph.link", "Graph.unlink"}

DeleteHookOrder ==
  (callOp = "Graph.delete" /\ Truthy(Get(entity0, "uid"))) =>
    LET before == Hooked("beforeDelete")
        after == Hooked("afterDelete")
        sends == Events("send")
        oks == Events("ok")
    IN /\ Cardinality(before) = 1
       /\ \A b \in before, i \in sends : b < i
       /\ sends # {} =>
            /\ log[First(sends)].a.kind = "mutate"
            /\ log[First(sends)].a.mu = "deleteJson"
            /\ log[First(sends)].a.body = O("uid" :> Get(entity0, "uid"))
       /\ Cardinality({i \in sends : log[i].a.mu = "deleteJson"}) <= 1
       /\ Cardinality(after) <= 1
       /\ \A a \in after :
            Cardinality(oks) = 1 /\ \A i \in sends \cup oks : i < a
       /\ result.status = "resolved" =>
            result.value = B(TRUE) /\ Cardinality(after) = 1
       /\ (result.status \in {"resolved", "rejected"} /\ oks = {}) =>
            result.status = "rejected" /\ after = {}
       /\ entity = entity0

DeletedThenHooked ==
  /\ callOp = "Graph.delete"
  /\ result = Settled("resolved", B(TRUE))
  /\ Cardinality(Events("send")) = 1
  /\ Hooked("beforeDelete") # {}
  /\ Hooked("afterDelete") # {}

\* C16: update of an entity with uid first sends the snapshot query, at
\* depth 1 when traverse is false and 3 when true; beforeUpdate comes once,
\* after the query was answered and before any mutation, with the snapshot
\* the query returned and the marshaled values; the mutation sets the
\* marshaled values; query and mutation run on the same Transaction;
\* afterUpdate comes once the mutation was answered and only then, with
\* the snapshot beforeUpdate received.
UpdateHookOrder ==
  (callOp = "Graph.update" /\ Truthy(Get(entity0, "uid"))) =>
    LET traverse == log[First(Events("call"))].a.v
        sends == Events("send")
        queries == {i \in sends : log[i].a.kind = "query"}
        mutates == {i \in sends : log[i].a.kind = "mutate"}
        oks == Events("ok")
        before == Hooked("beforeUpdate")
        after == Hooked("afterUpdate")
        marshaled == autoMarshal(entity0, traverse)
    IN /\ sends = queries \cup mutates
       /\ First(sends) \in queries
       /\ \A q \in queries :
            log[q].a.body = VertexQuery(IF traverse THEN 3 ELSE 1)
       /\ Cardinality(before) <= 1
       /\ \A b \in before :
            /\ \A q \in queries : q < b
            /\ \E k \in oks : k < b /\ \A q \in queries : q < k
            /\ log[b + 1].e = "args"
            /\ log[b + 1].a.v[2] = marshaled
            /\ LET res == log[First(oks)].a
               IN Get(res, "vertex") = A(<<Found>>) => log[b + 1].a.v[1] = Found
       /\ \A m \in mutates :
            /\ before # {} /\ \A b \in before : b < m
            /\ log[m].a.mu = "setJson"
            /\ log[m].a.body = marshaled
       /\ Cardinality(after) <= 1
       /\ \A a \in after :
            /\ \A m \in mutates : m < a
            /\ Cardinality(oks) = 2 /\ \A k \in oks : k < a
            /\ log[a + 1].e = "args"
            /\ log[a + 1].a.v[1] = log[First(before) + 1].a.v[1]
       /\ (result.status \in {"resolved", "rejected"} /\ Cardinality(oks) = 2) =>
            after # {}
       /\ top.op # "none" => top.tx = gop.tx
       /\ txCreated <= 1

UpdatedWithSnapshot ==
  /\ callOp = "Graph.update"
  /\ result.status = "resolved"
  /\ Hooked("afterUpdate") # {}
  /\ log[First(Events("call"))].a = B(FALSE)
  /\ log[Last(Hooked("afterUpdate")) + 1].a.v[1] = Found
  /\ Events("fail") # {}

\* C17: save and set invoke no hook and send no query; every request they
\* send is the same set-mutation, sent again only after a failed attempt,
\* and it is answered at most once; a call that passed its precondition
\* has sent it.
HookBypass ==
  callOp \in {"Graph.save", "Graph.set"} =>
    LET sends == Events("send")
    IN /\ Events("hook") = {}
       /\ Events("args") = {}
       /\ \A i \in sends :
            /\ log[i].a.kind = "mutate"
            /\ log[i].a.mu = "setJson"
            /\ log[i].a.body = log[First(sends)].a.body
       /\ Cardinality(sends) <= MaxRetries + 1
       /\ Cardinality(sends) <= Cardinality(Events("fail")) + 1
       /\ Cardinality(Events("ok")) <= 1
       /\ \A k \in Events("ok") : \A i \in sends : i < k
       /\ (callOp = "Graph.set" \/ Truthy(Get(entity0, "uid"))) => sends # {}
       /\ entity = entity0

SavedAfterRetry ==
  /\ callOp = "Graph.save"
  /\ result.status = "resolved"
  /\ Cardinality(Events("send")) = 2
  /\ Events("ok") # {}

\* C18: every request of a set carries the given id as uid, every key of
\* the given values that does not start with "_" with its value (the uid
\* key aside, which holds the id), and no key that starts with "_"; when
\* the call resolved the write is in the store, or staged in the supplied
\* Transaction.
SetPayload ==
  callOp = "Graph.set" =>
    LET given == log[First(Events("call"))].a
        uid == Get(given, "uid")
        values == Get(given, "values")
    IN /\ \A i \in Events("send") :
            LET body == log[i].a.body
            IN /\ Get(body, "uid") = uid
               /\ \A k \in DOMAIN values.v \ {"uid"} :
                    ~Private(k) => Get(body, k) = values.v[k]
               /\ \A k \in DOMAIN body.v : ~Private(k)
       /\ result.status = "resolved" =>
            Write \in applied \cup txs.ext.txn.staged

\* C19: link and unlink given an entity without uid create no Transaction,
\* send nothing and resolve with undefined; given two entities with uid
\* they send one mutation and no more, whose only triple is
\* <from.uid> predicate <to.uid>, set by link and removed by unlink.
LinkNeedsBothIds ==
  callOp \in {"Graph.link", "Graph.unlink"} =>
    LET given == log[First(Events("call"))].a
        from == Get(given, "from")
        to == Get(given, "to")
        sends == Events("send")
    IN IF Truthy(from) /\ Truthy(to)
       THEN /\ Cardinality(sends) = 1
            /\ \A i \in sends :
                 /\ log[i].a.kind = "mutate"
                 /\ log[i].a.mu = IF callOp = "Graph.link" THEN "setNquads"
                                  ELSE "delNquads"
                 /\ log[i].a.body = A(<<S("<" \o from.v \o ">"), S("owner"),
                                        S("<" \o to.v \o ">")>>)
            /\ Cardinality(Events("ok")) <= 1
       ELSE /\ txCreated = 0
            /\ Events("newTransaction") = {}
            /\ sends = {}
            /\ result = Settled("resolved", JUndef)
            /\ top.op = "none" /\ gop.op = "none"

UnlinkedOnce ==
  /\ callOp = "Graph.unlink"
  /\ result.status = "resolved"
  /\ Events("ok") # {}
  /\ log[First(Events("send"))].a.mu = "delNquads"

RECURSIVE Nested(_)
\* The clause nested d levels.
Nested(d) ==
  IF d = 1 THEN "uid expand(_all_)"
  ELSE "uid expand(_all_) { " \o Nested(d - 1) \o " }"

\* C20: expansion of a depth from 1 to 10 returns the clause nested that
\* many levels; of a depth below 1 or above 10 it throws the invalid-depth
\* error; two calls with the same depth have the same outcome.
ExpansionNested ==
  callOp = "Graph.expansion" =>
    /\ \A i \in DOMAIN log :
         LET d == log[i].a.depth
             out == log[i].a.out
         IN /\ d \in 1 .. 10 => out = Settled("returned", S(Nested(d)))
            /\ (d <= 0 \/ d >= 11) =>
                 /\ out.status = "thrown"
                 /\ Includes(out.value.message, "Invalid")
                 /\ Includes(out.value.message, "depth.")
    /\ \A i, j \in DOMAIN log :
         log[i].a.depth = log[j].a.depth => log[i].a.out = log[j].a.out
    /\ result = log[Len(log)].a.out

ExpansionTwice ==
  /\ callOp = "Graph.expansion"
  /\ Len(log) = 2
  /\ log[1].a.depth = 10 /\ log[2].a.depth = 10
  /\ result.status = "returned"

\* The keys of a class that name an edge, by direction.
EdgeKeys(cls, directions) ==
  {k \in DOMAIN Edges(cls) : Direction(Edges(cls)[k]) \in directions}

\* C21: what marshal returns has no key that names an edge when traverse
\* is false, no key that names an Undirected edge under either flag, and
\* no key that starts with "_", whatever the fields hold.
MarshalOmitsEdges ==
  \A i \in Events("marshal") :
    LET cls == log[i].a.vertex.c
        keys == DOMAIN log[i].a.out.v
    IN /\ ~log[i].a.traverse =>
            keys \cap EdgeKeys(cls, {"Directed", "Undirected"}) = {}
       /\ keys \cap EdgeKeys(cls, {"Undirected"}) = {}
       /\ \A k \in keys : ~Private(k)

RECURSIVE SameFields(_, _)
\* Every field of the entity a is a field of b with the same value, the
\* linked entities of a compared in the same way.
SameFields(a, b) ==
  /\ b.t \in {"vertex", "object"}
  /\ \A k \in DOMAIN a.v :
       LET x == a.v[k]
           y == Get(b, k)
       IN IF x.t = "vertex" THEN SameFields(x, y)
          ELSE IF x.t = "array"
          THEN /\ y.t = "array"
               /\ Len(y.v) = Len(x.v)
               /\ \A i \in DOMAIN x.v : SameFields(x.v[i], y.v[i])
          ELSE y = x

RECURSIVE OnlyDirected(_)
\* No Undirected edge of the entity or of an entity linked to it holds
\* anything (the empty list counts as something).
OnlyDirected(e) ==
  /\ \A k \in EdgeKeys(e.c, {"Undirected"}) : ~Truthy(e.v[k])
  /\ \A k \in DOMAIN e.v :
       /\ e.v[k].t = "vertex" => OnlyDirected(e.v[k])
       /\ e.v[k].t = "array" => \A i \in DOMAIN e.v[k].v : OnlyDirected(e.v[k].v[i])

\* The marshal calls whose result was unmarshaled into a new instance.
RoundTrips ==
  {i \in Events("marshal") :
     /\ i < Len(log)
     /\ log[i].a.traverse
     /\ log[i + 1].e = "unmarshal"
     /\ log[i + 1].a.values = log[i].a.out
     /\ log[i + 1].a.vertex = NewVertex(log[i].a.vertex.c)}

\* C22: unmarshaling marshal(e, true) into a new instance of the class of
\* e, where e has only scalar fields and Directed edges populated, does
\* not throw and gives an entity with every scalar field of e and, under
\* every Directed edge, every field of each linked entity, recursively.
MarshalRoundTrip ==
  \A i \in RoundTrips :
    OnlyDirected(log[i].a.vertex) =>
      /\ ~log[i + 1].a.threw
      /\ SameFields(log[i].a.vertex, log[i + 1].a.out)

\* C23: marshal emits the field name$ur under the key name@ur, with its
\* value, and not under name$ur; unmarshal of values with the key name@ur
\* assigns its value to the field name$ur and makes no field name@ur; so
\* unmarshaling what marshal returned restores the field.
LocaleRoundTrip ==
  /\ \A i \in Events("marshal") :
       LET e == log[i].a.vertex
           out == log[i].a.out
       IN "name$ur" \in DOMAIN e.v =>
            /\ "name@ur" \in DOMAIN out.v
            /\ out.v["name@ur"] = e.v["name$ur"]
            /\ "name$ur" \notin DOMAIN out.v
            /\ (i < Len(log) /\ log[i + 1].e = "unmarshal"
                  /\ log[i + 1].a.values = out) =>
                 log[i + 1].a.out.v["name$ur"] = e.v["name$ur"]
  /\ \A j \in Events("unmarshal") :
       LET values == log[j].a.values
           out == log[j].a.out
       IN (values.t = "object" /\ "name@ur" \in DOMAIN values.v) =>
            /\ ~log[j].a.threw
            /\ out.v["name$ur"] = values.v["name@ur"]
            /\ "name@ur" \notin DOMAIN out.v

LocaleRestored ==
  /\ Len(log) = 2
  /\ log[1].e = "marshal" /\ log[1].a.vertex.c = "Pet"
  /\ log[1].a.vertex.v["name$ur"] = S("X")
  /\ log[2].e = "unmarshal" /\ log[2].a.values = log[1].a.out
  /\ log[2].a.vertex = NewVertex("Pet")
  /\ entity.v["name$ur"] = S("X")

\* The key of the values an edge field is read from.
PayloadKey(cls, k) ==
  IF Direction(Edges(cls)[k]) = "Undirected"
  THEN ReverseKey(Edges(cls)[k].reverseEdgeName)
  ELSE k

\* C24: after unmarshal, every edge field whose key (for an Undirected edge
\* its reverse projection) is not in the values is undefined, whatever it
\* held before, and unmarshal has not thrown.
NoStaleEdges ==
  \A j \in Events("unmarshal") :
    LET cls == log[j].a.vertex.c
        values == log[j].a.values
    IN values.t = "object" =>
         /\ ~log[j].a.threw
         /\ \A k \in DOMAIN Edges(cls) :
              PayloadKey(cls, k) \notin DOMAIN values.v =>
                log[j].a.out.v[k] = JUndef

\* Loaded with the edge, then loaded again without it.
EdgeGoneOnReload ==
  /\ Len(log) = 2
  /\ log[1].e = "unmarshal" /\ log[2].e = "unmarshal"
  /\ log[1].a.out.c = "Pet" /\ log[1].a.out.v["owner"].t = "vertex"
  /\ log[2].a.vertex = log[1].a.out
  /\ "owner" \notin DOMAIN log[2].a.values.v
  /\ entity.v["owner"] = JUndef

\* The entity is of the class and has every scalar of the values.
BuiltFrom(built, cls, from) ==
  /\ built.t = "vertex"
  /\ built.c = cls
  /\ \A f \in DOMAIN from.v :
       (f \notin DOMAIN Edges(cls) /\ ~Private(f)) =>
         Get(built, FromStoreKey(f)) = from.v[f]

\* C25: when the values hold a list for an edge, a Single edge field holds
\* one entity of the edge's type made from the last element of the list,
\* and a Multiple edge field holds one such entity per element, in the
\* order of the list.
EdgeCardinality ==
  \A j \in Events("unmarshal") :
    LET cls == log[j].a.vertex.c
        values == log[j].a.values
        out == log[j].a.out
    IN \A k \in DOMAIN Edges(cls) :
         LET edge == Edges(cls)[k]
             list == Get(values, PayloadKey(cls, k))
         IN (list.t = "array" /\ Len(list.v) > 0) =>
              IF edge.cardinality = "Single"
              THEN BuiltFrom(out.v[k], edge.type, list.v[Len(list.v)])
              ELSE /\ out.v[k].t = "array"
                   /\ Len(out.v[k].v) = Len(list.v)
                   /\ \A i \in DOMAIN list.v :
                        BuiltFrom(out.v[k].v[i], edge.type, list.v[i])

SingleFromLast ==
  /\ callOp = "Vertex.unmarshal"
  /\ entity.c = "Pet"
  /\ Get(log[Len(log)].a.values, "owner").t = "array"
  /\ Len(Get(log[Len(log)].a.values, "owner").v) = 2
  /\ entity.v["owner"].t = "vertex"
  /\ entity.v["owner"].v["name"] = S("Ann")

\* C26: unmarshal gives the field of an Undirected edge what the values
\* hold under the reverse projection "~" + reverseOf, as entities of the
\* edge's type, and not what they hold under the field's own key; the
\* entity gets no field named as the reverse projection.
ReverseProjection ==
  \A j \in Events("unmarshal") :
    LET cls == log[j].a.vertex.c
        values == log[j].a.values
        out == log[j].a.out
    IN \A k \in EdgeKeys(cls, {"Undirected"}) :
         LET projection == "~" \o Edges(cls)[k].reverseEdgeName
             list == Get(values, projection)
         IN /\ projection \notin DOMAIN out.v
            /\ list.t = "undefined" => out.v[k] = JUndef
            /\ list.t = "array" =>
                 /\ out.v[k].t = "array"
                 /\ Len(out.v[k].v) = Len(list.v)
                 /\ \A i \in DOMAIN list.v :
                      BuiltFrom(out.v[k].v[i], Edges(cls)[k].type, list.v[i])

ReverseOverLiteral ==
  /\ callOp = "Vertex.unmarshal"
  /\ entity.c = "Origin"
  /\ {"pets", "~origin"} \subseteq DOMAIN log[Len(log)].a.values.v
  /\ entity.v["pets"].t = "array"
  /\ Len(entity.v["pets"].v) = 1
  /\ entity.v["pets"].v[1].v["name"] = S("Tom")

ClearReappliesSchema ==
  callOp = "Graph.clear" =>
    LET dropped == {i \in Events("ok") : log[i].a = S("dropAll")}
        drops == {i \in Events("alter") : log[i].a = S("dropAll")}
        schemas == {i \in Events("alter") : log[i].a = S("schema")}
        applies == {i \in Events("ok") : log[i].a = S("schema")}
    IN /\ \A i \in schemas : \E d \in dropped : d < i
       /\ (result.status = "resolved" /\ dropped # {}) =>
            \E i \in applies : \A d \in dropped : d < i
       /\ drops = {} => schemas = {}
       /\ (drops # {} /\ dropped = {} /\ Events("fail") # {}) =>
            result.status = "rejected" /\ schemas = {}

\* The attempts sent up to the event i.
Attempts(i) == Cardinality({j \in Events("send") : j <= i})

RetryOnlyOnMarker ==
  callOp \in Retried =>
    \A i \in Events("fail") :
      LET marked == Includes(log[i].a.message, "retry")
          again == Len(log) >= i + 2 /\ log[i + 2].e = "newTxn"
      IN /\ again <=> (marked /\ Attempts(i) - 1 < MaxRetries)
         /\ ~marked =>
              /\ Len(log) = i + 1
              /\ log[i + 1].e = "discard"
              /\ {j \in Events("newTxn") \cup Events("send") : j > i} = {}
              /\ top.op = "none"
              /\ result = Settled("rejected", ErrorOf(log[i].a))
              /\ txs.ext.txn.discardRequested

UnmarkedAfterRetries ==
  /\ callOp = "Transaction.mutate"
  /\ result = Settled("rejected", ErrorOf(UnavailableErr))
  /\ Cardinality(Events("send")) = 3
  /\ Cardinality(Events("newTxn")) = 2

\* The payload has no key for a populated edge of the entity it was
\* marshaled from.
Flat(linked, payload) ==
  /\ payload.t = "object"
  /\ \A k \in DOMAIN Edges(linked.c) :
       Truthy(linked.v[k]) => k \notin DOMAIN payload.v

\* C31: with traverse = true a populated Directed edge is emitted in the
\* shape of its field, one nested payload for a linked entity and a list
\* of as many nested payloads for a list, and a nested payload has no key
\* for an edge of the linked entity that holds something: the payload is
\* one edge level deep.
MarshalOneLevel ==
  \A i \in Events("marshal") :
    LET e == log[i].a.vertex
        out == log[i].a.out
    IN log[i].a.traverse =>
         \A k \in EdgeKeys(e.c, {"Directed"}) :
           /\ e.v[k].t = "vertex" => Flat(e.v[k], out.v[k])
           /\ e.v[k].t = "array" =>
                /\ out.v[k].t = "array"
                /\ Len(out.v[k].v) = Len(e.v[k].v)
                /\ \A j \in DOMAIN e.v[k].v : Flat(e.v[k].v[j], out.v[k].v[j])

\* C32: the N of the first:N that Graph.all emits is 1000 when the limit
\* is absent, zero, negative or 10000 and above, and the caller's limit
\* otherwise; it is at least 1 and at most 9999.
AllLimitClamped ==
  \A i \in Events("all") :
    LET limit == log[i].a.limit
        unreasonable == limit.t = "undefined" \/ limit.v <= 0 \/ limit.v >= 10000
    IN /\ log[i].a.phrase = ", first:" \o ToString(log[i].a.first)
       /\ log[i].a.first = IF unreasonable THEN 1000 ELSE limit.v
       /\ log[i].a.first \in 1 .. 9999

\* The alter requests that carried the schema, in the order sent.
SchemaAlters == {i \in Events("alter") : log[i].a = S("schema")}

\* C33: applySchema sends at most MaxRetries + 1 alter requests; the
\* request after the first follows a retryable failure of the one before
\* and the retry count is the number of requests that failed; a failure
\* that is not retryable, or the failure of request MaxRetries + 1, is
\* the last event and rejects the call with it; a success is followed by
\* no other request.
SchemaRetryBound ==
  callOp = "Graph.clear" =>
    /\ Cardinality(SchemaAlters) <= MaxRetries + 1
    /\ gop.pc = "schema" => gop.current.v = Cardinality(SchemaAlters) - 1
    /\ \A i \in SchemaAlters :
         i # First(SchemaAlters) =>
           /\ log[i - 2] = Ev("fail", AbortedErr)
           /\ log[i - 1].e = "wait"
           /\ i - 3 \in SchemaAlters
    /\ \A i \in Events("fail") :
         (/\ SchemaAlters # {}
          /\ i > First(SchemaAlters)
          /\ \/ ~Includes(log[i].a.message, "retry")
             \/ Cardinality({j \in SchemaAlters : j < i}) = MaxRetries + 1)
           => /\ i = Len(log)
              /\ result = Settled("rejected", ErrorOf(log[i].a))
    /\ \A i \in Events("ok") :
         log[i].a = S("schema") => \A j \in SchemaAlters : j < i

SchemaGaveUp ==
  /\ callOp = "Graph.clear"
  /\ Cardinality(SchemaAlters) = MaxRetries + 1
  /\ log[Len(log)] = Ev("fail", AbortedErr)
  /\ result = Settled("rejected", ErrorOf(AbortedErr))

\* The handle of the caller's Transaction has ended: it was committed or
\* discarded.
Terminal == txs.ext.txn.finished

\* The methods that catch, discard and may retry.
Retrying ==
  {"Transaction.query", "Transaction.mutate", "Transaction.upsert",
   "Transaction.delete"}

AtBeforeHook == gop.pc \in {"beforeCreate", "beforeDelete", "beforeUpdate"}

\* C35: the step in which beforeCreate, beforeDelete or beforeUpdate
\* rejects settles the Graph call as rejected with the hook's error; up to
\* then no write was sent: update has sent its snapshot query, once for
\* each attempt, and create and delete have sent nothing; no after-hook
\* was invoked; and the step leaves the log, the store, the handles and
\* the entity with its uid as they were.
BeforeHookRejects ==
  [][(AtBeforeHook /\ result'.status = "rejected") =>
       /\ result'.value = HookErr
       /\ \A i \in Events("send") : ~IsWrite(log[i].a)
       /\ IF gop.op = "update"
          THEN /\ Events("send") # {}
               /\ \A i \in Events("send") :
                    /\ log[i].a.kind = "query"
                    /\ log[i].a.body = VertexQuery(IF gop.traverse THEN 3 ELSE 1)
          ELSE Events("send") = {}
       /\ \A i \in Events("hook") :
            log[i].a \notin {S("afterCreate"), S("afterDelete"), S("afterUpdate")}
       /\ log' = log
       /\ applied' = applied
       /\ txs' = txs
       /\ entity' = entity
       /\ Get(entity, "uid") = Get(entity0, "uid")]_vars

UpdateHookRejected ==
  /\ callOp = "Graph.update"
  /\ result = Settled("rejected", HookErr)
  /\ Cardinality(Events("send")) = 1
  /\ log[Len(log)].e = "args"
  /\ log[Len(log) - 1] = Ev("hook", S("beforeUpdate"))

Installs ==
  Cardinality({i \in DOMAIN log' : log'[i].e = "newTxn"})
    > Cardinality(Events("newTxn"))

\* C37: a handle installed by the catch of query is read-only and one
\* installed by the catch of mutate, upsert or delete is read-write,
\* whatever mode the constructor asked for; the handle the Transaction
\* holds has the mode of the last one installed; and the mode changes in
\* no other step, so it is the mode the next call is issued on.
HandleModeFromRetry ==
  /\ [][Installs =>
          /\ txs'.ext.txn = NewTxn(top.op = "query")
          /\ top.op \in {"query", "mutate", "upsert", "delete"}]_vars
  /\ [](Events("newTxn") # {} =>
          txs.ext.txn.readOnly = log[Last(Events("newTxn"))].a.v)
  /\ [][txs'.ext.txn.readOnly # txs.ext.txn.readOnly => Installs]_vars
  /\ [](txs.ext.txn.readOnly # obtained.readOnly =>
          obtained.count + Cardinality(Events("newTxn")) > 1)

\* A mutate is issued on the open read-only handle of a Transaction that
\* was constructed read-write.
MutateOnReadOnlyHandle ==
  /\ ~obtained.readOnly
  /\ callOp = "Transaction.mutate"
  /\ top.pc = "await"
  /\ txs.ext.txn.readOnly
  /\ ~txs.ext.txn.finished

\* C38: Transaction.mutate resolves with an id that is not empty; for a
\* payload without id and an answer that maps no id to the placeholder it
\* resolves with the placeholder; every attempt of the call sends the
\* same payload, whose uid is the placeholder when the caller's had none,
\* so the payload the call leaves behind has a uid.
MutateIdNeverEmpty ==
  callOp = "Transaction.mutate" =>
    LET values == log[1].a
    IN /\ \A i \in Events("send") :
            /\ Truthy(Get(log[i].a.body, "uid"))
            /\ log[i].a.body = log[First(Events("send"))].a.body
            /\ ~Truthy(Get(values, "uid")) =>
                 log[i].a.body = Put(values, "uid", Placeholder)
       /\ result.status = "resolved" =>
            /\ Truthy(result.value)
            /\ (/\ ~Truthy(Get(values, "uid"))
                /\ ~Truthy(Get(log[Last(Events("ok"))].a, PlaceholderKey)))
                 => result.value = Placeholder

PlaceholderAfterRetry ==
  /\ callOp = "Transaction.mutate"
  /\ result = Settled("resolved", Placeholder)
  /\ Cardinality(Events("send")) = 2
  /\ Get(log[Len(log)].a, PlaceholderKey) = S("")

\* C39: when the query of Graph.load was answered with an empty list, the
\* entity has the fields it was passed with, each edge field undefined
\* and every other field, the uid too, as it was, and load has resolved
\* with the entity or was rejected by the unmarshal.
LoadEmptyResetsEdges ==
  (/\ callOp = "Graph.load"
   /\ result.status \in {"resolved", "rejected"}
   /\ Events("ok") # {}
   /\ Get(log[Last(Events("ok"))].a, "vertex") = A(<<>>)) =>
    /\ entity.c = entity0.c
    /\ DOMAIN entity.v = DOMAIN entity0.v
    /\ \A k \in DOMAIN entity0.v :
         entity.v[k] = IF k \in DOMAIN Edges(entity0.c) THEN JUndef
                       ELSE entity0.v[k]
    /\ result \in {Settled("resolved", entity), Settled("rejected", TypeErr)}

OwnerLostOnEmptyLoad ==
  /\ callOp = "Graph.load"
  /\ result = Settled("resolved", entity)
  /\ Get(log[Last(Events("ok"))].a, "vertex") = A(<<>>)
  /\ Truthy(entity0.v["owner"])
  /\ entity.v["owner"] = JUndef
  /\ entity.v["uid"] = S("0x1")

\* C40: marshal(true) returns for every graph of entities, also where
\* the populated Directed edges lead from an entity back to itself: it
\* does not run out of stack.
MarshalTerminates ==
  \A i \in Events("marshalGraph") : ~log[i].a.threw
====
